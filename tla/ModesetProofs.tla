---------------------------- MODULE ModesetProofs ----------------------------
(***************************************************************************)
(* Proofs about the display program: for any number of connectors,         *)
(* encoders and CRTCs, any wiring, any order and any number of failing     *)
(* requests.                                                               *)
(***************************************************************************)
EXTENDS Modeset, FiniteSetTheorems, TLAPS

Setup  == {"connector", "crtc", "dumb", "addfb", "map", "err_fb", "err_destroy"}
Built  == {"addfb", "map", "err_fb", "err_destroy"}
Freeing == {"unmap", "rmfb", "destroy"}
Places == Setup \cup Freeing \cup {"open", "save", "show", "restore", "exit", "crashed"}

Saves == [known : {FALSE}] \cup [known : {TRUE}, fb : Nat]
Devs  == [conn : Nat, crtc : Nat, buffer : Nat, size : Nat, saved : Saves]
Refused == [save : SUBSET Nat, map : SUBSET Nat, fb : SUBSET Nat, dumb : SUBSET Nat]

Types == /\ board \in Boards
         /\ crtcs \in [DOMAIN board.crtcs -> [fb : Nat, conn : Nat]]
         /\ modeset_list \in Seq(Devs) /\ dev \in Devs /\ i \in Nat \ {0}
         /\ pc \in Places /\ faults \in 0 .. MaxFaults /\ failed \in Refused

\* The devices of the list have a CRTC and a buffer each of their own, and the
\* one being set up, or freed, has others.
Apart ==
    /\ \A k \in DOMAIN modeset_list :
          /\ modeset_list[k].crtc \in DOMAIN board.crtcs
          /\ modeset_list[k].buffer > 100
          /\ pc \in Setup => modeset_list[k].buffer < 100 + i
    /\ \A k, l \in DOMAIN modeset_list :
          k # l => /\ modeset_list[k].crtc # modeset_list[l].crtc
                   /\ modeset_list[k].buffer # modeset_list[l].buffer
    /\ pc \in Setup \ {"connector"} => i \in DOMAIN board.connectors
    /\ pc = "dumb" \/ pc \in Built => dev.crtc \in DOMAIN board.crtcs \ Used
    /\ pc \in Built => dev.buffer = Fresh
    /\ pc \in Freeing => dev.buffer > 100 /\ dev.buffer \notin Owned
    /\ pc = "show" => i \in DOMAIN modeset_list
    /\ pc \in {"open", "exit"} => modeset_list = <<>>

\* What exists, exactly, at each place: what devices own, what the board had,
\* what the kernel refused to release, and what the device at hand has by then.
Theirs == {board.crtcs[c].fb : c \in DOMAIN board.crtcs}
At(places) == IF pc \in places THEN {dev.buffer} ELSE {}
Accounted ==
    /\ \A c \in DOMAIN board.crtcs : crtcs[c].fb \in fbs \cup {None}
    /\ fbs \subseteq Theirs \cup Owned \cup failed.fb \cup At({"map", "err_fb", "unmap", "rmfb"})
    /\ dumbs \subseteq Owned \cup failed.dumb \cup At(Built \cup Freeing)
    /\ maps \subseteq Owned \cup failed.map \cup At({"unmap"})
    /\ Owned \subseteq fbs \cap dumbs \cap maps

-----------------------------------------------------------------------------
\* A device joins the list, or leaves it, at its head.
LEMMA Joins ==
    ASSUME NEW s \in Seq(Devs), NEW d \in Devs, NEW t, t = <<d>> \o s
    PROVE  /\ t \in Seq(Devs) /\ Len(t) = Len(s) + 1 /\ t[1] = d /\ 1 \in DOMAIN t
           /\ \A k \in DOMAIN t : k # 1 => k - 1 \in DOMAIN s /\ t[k] = s[k - 1]
           /\ \A k \in DOMAIN s : k + 1 \in DOMAIN t /\ t[k + 1] = s[k]
  <1>1. <<d>> \in Seq(Devs) /\ Len(<<d>>) = 1
    OBVIOUS
  <1>2. t \in Seq(Devs) /\ Len(t) = Len(s) + 1
    BY <1>1
  <1>3. t[1] = d /\ 1 \in DOMAIN t
    BY <1>1, <1>2
  <1>4. ASSUME NEW k \in DOMAIN s PROVE k + 1 \in DOMAIN t /\ t[k + 1] = s[k]
    BY <1>1, <1>2
  <1>5. ASSUME NEW k \in DOMAIN t, k # 1 PROVE k - 1 \in DOMAIN s /\ t[k] = s[k - 1]
    BY <1>1, <1>2, <1>5
  <1>6. QED
    BY <1>2, <1>3, <1>4, <1>5

LEMMA Leaves ==
    ASSUME NEW s \in Seq(Devs), s # <<>>
    PROVE  /\ Head(s) = s[1] /\ 1 \in DOMAIN s /\ s[1] \in Devs
           /\ Tail(s) \in Seq(Devs)
           /\ \A k \in DOMAIN Tail(s) : k + 1 \in DOMAIN s /\ Tail(s)[k] = s[k + 1] /\ k + 1 # 1
           /\ \A k \in DOMAIN s : k # 1 => k - 1 \in DOMAIN Tail(s) /\ Tail(s)[k - 1] = s[k]
  OBVIOUS

\* A device whose state is saved keeps the rest.
LEMMA Saving ==
    ASSUME NEW s \in Seq(Devs), NEW k \in DOMAIN s, NEW v \in Saves,
           NEW t, t = [s EXCEPT ![k].saved = v]
    PROVE  /\ t \in Seq(Devs) /\ DOMAIN t = DOMAIN s
           /\ \A l \in DOMAIN s : /\ t[l].conn = s[l].conn /\ t[l].crtc = s[l].crtc
                                  /\ t[l].buffer = s[l].buffer /\ t[l].size = s[l].size
                                  /\ t[l].saved = IF l = k THEN v ELSE s[l].saved
  <1>1. PICK r \in Devs : r = s[k]
    OBVIOUS
  <1> DEFINE d == [r EXCEPT !.saved = v]
  <1>2. /\ d.conn = r.conn /\ d.crtc = r.crtc /\ d.buffer = r.buffer
        /\ d.size = r.size /\ d.saved = v
    BY DEF Devs
  <1>3. d \in Devs
    <2>1. d = [conn |-> r.conn, crtc |-> r.crtc, buffer |-> r.buffer, size |-> r.size, saved |-> v]
      <3>1. r = [conn |-> r.conn, crtc |-> r.crtc, buffer |-> r.buffer, size |-> r.size,
                 saved |-> r.saved]
        BY DEF Devs
      <3>2. QED
        BY <3>1
    <2>2. r.conn \in Nat /\ r.crtc \in Nat /\ r.buffer \in Nat /\ r.size \in Nat
      BY DEF Devs
    <2> HIDE DEF d
    <2>3. QED
      BY <2>1, <2>2 DEF Devs
  <1>4. t = [s EXCEPT ![k] = d]
    BY <1>1
  <1> HIDE DEF d
  <1>5. t \in Seq(Devs) /\ DOMAIN t = DOMAIN s
    <2>1. k \in 1 .. Len(s) /\ d \in Devs
      BY <1>3
    <2>2. t \in [1 .. Len(s) -> Devs]
      BY <1>4, <2>1
    <2>3. QED
      BY <2>2
  <1>6. \A l \in DOMAIN s : t[l] = IF l = k THEN d ELSE s[l]
    BY <1>4
  <1>7. QED
    BY <1>1, <1>2, <1>5, <1>6

\* The program's first candidate is one.
LEMMA LeastIsThere ==
    ASSUME NEW T \in SUBSET Nat, T # {}
    PROVE  \E x \in T : \A y \in T : x <= y
  <1> DEFINE F == {0 .. x : x \in T}
  <1>1. F \subseteq FiniteSubsetsOf(Nat) /\ F # {}
    <2>1. ASSUME NEW x \in T PROVE 0 .. x \in FiniteSubsetsOf(Nat)
      <3>1. x \in Int /\ 0 \in Int /\ 0 .. x \subseteq Nat
        OBVIOUS
      <3>2. IsFiniteSet(0 .. x)
        BY <3>1, FS_Interval
      <3>3. QED
        BY <3>1, <3>2 DEF FiniteSubsetsOf
    <2>2. QED
      BY <2>1
  <1>2. PICK X \in F : \A Y \in F : ~(<<Y, X>> \in StrictSubsetOrdering(Nat))
    <2>1. IsWellFoundedOn(StrictSubsetOrdering(Nat), FiniteSubsetsOf(Nat))
      BY FS_StrictSubsetOrderingWellFounded
    <2> HIDE DEF F
    <2>2. QED
      BY <1>1, <2>1, WFMin
  <1>3. PICK x \in T : X = 0 .. x
    OBVIOUS
  <1>4. ASSUME NEW y \in T PROVE x <= y
    <2>1. SUFFICES ASSUME ~(x <= y) PROVE FALSE
      OBVIOUS
    <2>2. y < x /\ x \in Nat /\ y \in Nat
      BY <2>1
    <2>3. 0 .. y \subseteq 0 .. x /\ x \notin 0 .. y /\ x \in 0 .. x
      BY <2>2
    <2>4. 0 .. y \in SUBSET Nat /\ 0 .. x \in SUBSET Nat /\ 0 .. y # 0 .. x
      BY <2>2, <2>3
    <2>5. <<0 .. y, 0 .. x>> \in StrictSubsetOrdering(Nat)
      BY <2>3, <2>4 DEF StrictSubsetOrdering
    <2>6. QED
      BY <1>2, <1>3, <2>5
  <1>5. QED
    BY <1>4

LEMMA FirstIsThere ==
    ASSUME NEW P \in SUBSET (Nat \X Nat), P # {}
    PROVE  First(P) \in P
  <1> DEFINE E == {p[1] : p \in P}
  <1>1. E \in SUBSET Nat /\ E # {}
    OBVIOUS
  <1>2. PICK m \in E : \A x \in E : m <= x
    BY <1>1, LeastIsThere
  <1>3. PICK C \in SUBSET Nat : C # {} /\ \A x : x \in C <=> \E p \in P : p[1] = m /\ p[2] = x
    <2>1. {p[2] : p \in {q \in P : q[1] = m}} \in SUBSET Nat
      OBVIOUS
    <2>2. {p[2] : p \in {q \in P : q[1] = m}} # {}
      BY <1>2
    <2>3. \A x : x \in {p[2] : p \in {q \in P : q[1] = m}} <=> \E p \in P : p[1] = m /\ p[2] = x
      OBVIOUS
    <2>4. QED
      BY <2>1, <2>2, <2>3
  <1>4. PICK c \in C : \A x \in C : c <= x
    BY <1>3, LeastIsThere
  <1>5. PICK p \in P : p[1] = m /\ p[2] = c
    BY <1>3
  <1>6. ASSUME NEW q \in P PROVE p[1] < q[1] \/ (p[1] = q[1] /\ p[2] <= q[2])
    <2>1. m <= q[1] /\ m \in Nat /\ q[1] \in Nat
      BY <1>1, <1>2
    <2>2. q[1] = m => c <= q[2]
      BY <1>3, <1>4
    <2>3. QED
      BY <1>5, <2>1, <2>2
  <1>7. QED
    BY <1>6 DEF First

-----------------------------------------------------------------------------
MInv == Types /\ Apart /\ Accounted

LEMMA BoardFacts ==
    ASSUME Types
    PROVE  /\ board.connectors \in Seq([id : Nat \ {None}, connected : BOOLEAN, size : Nat,
                                        encoder : DOMAIN board.encoders \cup {None},
                                        encoders : Seq(DOMAIN board.encoders)])
           /\ IsFiniteSet(DOMAIN board.encoders)
           /\ DOMAIN board.crtcs \subseteq Nat \ {None}
           /\ \A e \in DOMAIN board.encoders : board.encoders[e].crtc \in DOMAIN board.crtcs \cup {None}
           /\ \A x \in Theirs : x \in 0 .. 100
           /\ FrameSize \in Nat /\ MaxFaults \in Nat
  <1>1. BoardOK(board)
    BY ModesetAssumption DEF Types
  <1>2. \A x \in Theirs : x \in 0 .. 100
    <2>1. board.crtcs \in [DOMAIN board.crtcs -> [fb : 0 .. 100, conn : Nat]]
      BY <1>1 DEF BoardOK
    <2>2. QED
      BY <2>1 DEF Theirs
  <1>3. FrameSize \in Nat /\ MaxFaults \in Nat
    BY ModesetAssumption
  <1>4. QED
    BY <1>1, <1>2, <1>3 DEF BoardOK

LEMMA ConnectorFacts ==
    ASSUME Types, i \in DOMAIN board.connectors
    PROVE  /\ Connector.id \in Nat /\ Connector.size \in Nat
           /\ Connector.encoder \in DOMAIN board.encoders \cup {None}
           /\ Connector.encoders \in Seq(DOMAIN board.encoders)
  <1> DEFINE R == [id : Nat \ {None}, connected : BOOLEAN, size : Nat,
                   encoder : DOMAIN board.encoders \cup {None},
                   encoders : Seq(DOMAIN board.encoders)]
  <1>1. board.connectors \in Seq(R)
    BY BoardFacts
  <1> HIDE DEF R
  <1>2. Connector \in R
    BY <1>1 DEF Connector
  <1>3. QED
    BY <1>2 DEF R

LEMMA ListKept ==
    ASSUME UNCHANGED <<board, modeset_list>>
    PROVE  Owned' = Owned /\ Used' = Used /\ Theirs' = Theirs
  BY DEF Owned, Used, Theirs

LEMMA FaultsStep ==
    ASSUME Types, Succeeds \/ Fails PROVE faults' \in 0 .. MaxFaults
  BY BoardFacts DEF Types, Succeeds, Fails

LEMMA NoDevTyped == NoDev \in Devs /\ NoDev.buffer = None
  BY DEF NoDev, Devs, Saves, None

\* A refused request is remembered, and nothing else is.
LEMMA Refusing ==
    ASSUME NEW f \in Refused, NEW n \in Nat, NEW g
    PROVE  /\ g = [f EXCEPT !.save = @ \cup {n}] =>
                 /\ g \in Refused /\ g.save = f.save \cup {n}
                 /\ g.map = f.map /\ g.fb = f.fb /\ g.dumb = f.dumb
           /\ g = [f EXCEPT !.map = @ \cup {n}] =>
                 /\ g \in Refused /\ g.map = f.map \cup {n}
                 /\ g.save = f.save /\ g.fb = f.fb /\ g.dumb = f.dumb
           /\ g = [f EXCEPT !.fb = @ \cup {n}] =>
                 /\ g \in Refused /\ g.fb = f.fb \cup {n}
                 /\ g.save = f.save /\ g.map = f.map /\ g.dumb = f.dumb
           /\ g = [f EXCEPT !.dumb = @ \cup {n}] =>
                 /\ g \in Refused /\ g.dumb = f.dumb \cup {n}
                 /\ g.save = f.save /\ g.map = f.map /\ g.fb = f.fb
  BY DEF Refused

\* The next connector, with nothing of the one before left.
LEMMA NextConnectorStep ==
    ASSUME MInv, NextConnector, faults' \in 0 .. MaxFaults, pc \in Setup,
           UNCHANGED <<board, crtcs, modeset_list>>,
           \A c \in DOMAIN board.crtcs : crtcs[c].fb \in fbs' \cup {None},
           failed' \in Refused, fbs' \subseteq Theirs \cup Owned \cup failed'.fb,
           dumbs' \subseteq Owned \cup failed'.dumb, maps' \subseteq Owned \cup failed'.map,
           Owned \subseteq fbs' \cap dumbs' \cap maps'
    PROVE  MInv'
  <1>1. pc' = "connector" /\ i' = i + 1 /\ dev' = NoDev
    BY DEF NextConnector
  <1>2. Types'
    BY <1>1, NoDevTyped DEF MInv, Types, Places, Setup
  <1>3. Apart'
    <2>1. \A k \in DOMAIN modeset_list : modeset_list[k].buffer < 100 + i'
      <3>1. ASSUME NEW k \in DOMAIN modeset_list PROVE modeset_list[k].buffer < 100 + i'
        <4>1. modeset_list[k] \in Devs /\ modeset_list[k].buffer < 100 + i /\ i \in Nat
          BY DEF MInv, Types, Apart
        <4>2. modeset_list[k].buffer \in Nat
          BY <4>1 DEF Devs
        <4>3. QED
          BY <1>1, <4>1, <4>2
      <3>2. QED
        BY <3>1
    <2>2. QED
      BY <1>1, <2>1 DEF MInv, Apart, Setup, Built, Freeing
  <1>4. Accounted'
    BY <1>1, ListKept DEF MInv, Accounted, At, Built, Freeing
  <1>5. QED
    BY <1>2, <1>3, <1>4 DEF MInv

LEMMA NextConnectorOnly ==
    ASSUME MInv, NextConnector, faults' \in 0 .. MaxFaults, pc \in Setup \ Built,
           UNCHANGED <<board, crtcs, fbs, dumbs, maps, modeset_list, failed>>
    PROVE  MInv'
  <1>1. /\ \A c \in DOMAIN board.crtcs : crtcs[c].fb \in fbs \cup {None}
        /\ fbs \subseteq Theirs \cup Owned \cup failed.fb
        /\ dumbs \subseteq Owned \cup failed.dumb /\ maps \subseteq Owned \cup failed.map
        /\ Owned \subseteq fbs \cap dumbs \cap maps /\ failed \in Refused
    BY DEF MInv, Types, Accounted, At, Setup, Built, Freeing
  <1>2. QED
    BY <1>1, NextConnectorStep

\* Steps that change neither the kernel's objects nor the list.
LEMMA KernelKept ==
    ASSUME MInv, Types', UNCHANGED <<board, crtcs, fbs, dumbs, maps, modeset_list>>,
           UNCHANGED failed,
           pc \notin Built \cup Freeing, pc' \notin Built \cup Freeing
    PROVE  Accounted'
  BY ListKept DEF MInv, Accounted, At, Built, Freeing

LEMMA OpenStep ==
    ASSUME MInv, modeset_open PROVE MInv'
  <1>1. pc = "open" /\ pc' \in {"connector", "exit"} /\ UNCHANGED <<board, kernel, modeset_list, dev, i, failed>>
    BY DEF modeset_open
  <1>2. faults' \in 0 .. MaxFaults
    BY FaultsStep DEF modeset_open, MInv
  <1>3. Types'
    BY <1>1, <1>2 DEF MInv, Types, kernel, Places, Setup
  <1>4. Apart'
    BY <1>1 DEF MInv, Apart, Setup, Built, Freeing
  <1>5. Accounted'
    BY <1>1, <1>3, KernelKept DEF kernel, Built, Freeing
  <1>6. QED
    BY <1>3, <1>4, <1>5 DEF MInv

LEMMA SetupStep ==
    ASSUME MInv, modeset_setup_dev PROVE MInv'
  <1>1. pc = "connector" /\ i <= Len(board.connectors) /\ UNCHANGED <<board, kernel, modeset_list, failed>>
    BY DEF modeset_setup_dev
  <1>2. faults' \in 0 .. MaxFaults
    BY FaultsStep DEF modeset_setup_dev, MInv
  <1>3. i \in DOMAIN board.connectors
    BY <1>1, BoardFacts DEF MInv, Types
  <1>4. CASE NextConnector
    BY <1>1, <1>2, <1>4, NextConnectorOnly DEF kernel, Setup, Built
  <1>5. CASE /\ dev' = [NoDev EXCEPT !.conn = Connector.id, !.size = Connector.size]
             /\ pc' = "crtc" /\ UNCHANGED i
    <2>1. dev' \in Devs
      <3>1. dev' = [conn |-> Connector.id, crtc |-> None, buffer |-> None, size |-> Connector.size,
                    saved |-> [known |-> FALSE]]
        BY <1>5 DEF NoDev
      <3>2. Connector.id \in Nat /\ Connector.size \in Nat /\ None \in Nat
        BY <1>3, ConnectorFacts DEF MInv, None
      <3>3. [known |-> FALSE] \in Saves
        BY DEF Saves
      <3>4. QED
        BY <3>1, <3>2, <3>3 DEF Devs
    <2>2. Types'
      BY <1>1, <1>2, <1>5, <2>1 DEF MInv, Types, kernel, Places, Setup
    <2>3. Apart'
      BY <1>1, <1>3, <1>5 DEF MInv, Apart, Setup, Built, Freeing
    <2>4. Accounted'
      BY <1>1, <1>5, <2>2, KernelKept DEF kernel, Built, Freeing
    <2>5. QED
      BY <2>2, <2>3, <2>4 DEF MInv
  <1>6. QED
    BY <1>4, <1>5 DEF modeset_setup_dev

\* What modeset_find_crtc could not retrieve is taken off the faults.
LEMMA Retrievals ==
    ASSUME Types, i \in DOMAIN board.connectors, NEW lost \in BOOLEAN,
           NEW bad \in SUBSET DOMAIN Connector.encoders, NEW cost,
           cost = Cardinality(bad) + IF lost THEN 1 ELSE 0, cost <= faults,
           faults' = faults - cost
    PROVE  /\ faults' \in 0 .. MaxFaults
           /\ faults' = MaxFaults => lost = FALSE /\ bad = {} /\ faults = MaxFaults
  <1>1. Connector.encoders \in Seq(DOMAIN board.encoders)
    BY ConnectorFacts
  <1>2. DOMAIN Connector.encoders = 1 .. Len(Connector.encoders) /\ Len(Connector.encoders) \in Int
    BY <1>1
  <1>3. IsFiniteSet(DOMAIN Connector.encoders)
    BY <1>2, FS_Interval
  <1>4. IsFiniteSet(bad) /\ Cardinality(bad) \in Nat
    BY <1>3, FS_Subset, FS_CardinalityType
  <1>5. faults \in 0 .. MaxFaults /\ MaxFaults \in Nat
    BY BoardFacts DEF Types
  <1>6. faults' \in 0 .. MaxFaults
    BY <1>4, <1>5
  <1>7. ASSUME faults' = MaxFaults PROVE lost = FALSE /\ Cardinality(bad) = 0 /\ faults = MaxFaults
    BY <1>4, <1>5, <1>7
  <1>8. Cardinality(bad) = 0 => bad = {}
    BY <1>4, FS_EmptySet
  <1>9. QED
    BY <1>6, <1>7, <1>8

\* A CRTC that modeset_find_crtc finds is one of the board's and no device's.
LEMMA FindStep ==
    ASSUME MInv, modeset_find_crtc PROVE MInv'
  <1>1. /\ pc = "crtc" /\ UNCHANGED <<board, kernel, modeset_list, failed>> /\ i \in DOMAIN board.connectors
    BY DEF modeset_find_crtc, MInv, Apart, Setup
  <1>2. PICK lost \in BOOLEAN, bad \in SUBSET DOMAIN Connector.encoders :
           LET first == IF lost THEN None ELSE Current
               cost == Cardinality(bad) + IF lost THEN 1 ELSE 0
               found == IF first # None THEN first
                        ELSE IF Candidates(bad) # {} THEN First(Candidates(bad))[2] ELSE None
           IN  /\ lost => Connector.encoder # None
               /\ first # None => bad = {}
               /\ cost <= faults /\ faults' = faults - cost
               /\ IF found = None THEN NextConnector
                  ELSE pc' = "dumb" /\ dev' = [dev EXCEPT !.crtc = found] /\ UNCHANGED i
    BY DEF modeset_find_crtc
  <1> DEFINE first == IF lost THEN None ELSE Current
             found == IF first # None THEN first
                      ELSE IF Candidates(bad) # {} THEN First(Candidates(bad))[2] ELSE None
  <1>3. faults' \in 0 .. MaxFaults
    BY <1>1, <1>2, Retrievals DEF MInv, Types
  <1>4. found = None \/ found \in DOMAIN board.crtcs \ Used
    <2>1. CASE first # None
      BY <1>1, <2>1, BoardFacts, ConnectorFacts DEF Current, MInv
    <2>2. CASE first = None /\ Candidates(bad) # {}
      <3>1. Candidates(bad) \in SUBSET (Nat \X Nat)
        <4>1. DOMAIN Connector.encoders \subseteq Nat /\ DOMAIN board.crtcs \subseteq Nat
          <5>1. Connector.encoders \in Seq(DOMAIN board.encoders)
            BY <1>1, ConnectorFacts DEF MInv
          <5>2. DOMAIN Connector.encoders \subseteq Nat
            BY <5>1
          <5>3. QED
            BY <5>2, BoardFacts DEF MInv
        <4>2. Candidates(bad) \subseteq (DOMAIN Connector.encoders) \X (DOMAIN board.crtcs)
          BY DEF Candidates
        <4>3. QED
          BY <4>1, <4>2
      <3>2. First(Candidates(bad)) \in Candidates(bad)
        BY <2>2, <3>1, FirstIsThere
      <3>3. First(Candidates(bad))[2] \in DOMAIN board.crtcs \ Used
        <4> DEFINE P == Candidates(bad)
        <4>1. \A p \in P : p[2] \in DOMAIN board.crtcs \ Used
          BY DEF Candidates
        <4> HIDE DEF P
        <4>2. QED
          BY <3>2, <4>1 DEF P
      <3>4. QED
        BY <2>2, <3>3
    <2>3. QED
      BY <2>1, <2>2
  <1>5. IF found = None THEN NextConnector
        ELSE pc' = "dumb" /\ dev' = [dev EXCEPT !.crtc = found] /\ UNCHANGED i
    BY <1>2
  <1> HIDE DEF found
  <1>6. CASE NextConnector
    BY <1>1, <1>3, <1>6, NextConnectorOnly DEF kernel, Setup, Built
  <1>7. CASE found # None
    <2>1. /\ pc' = "dumb" /\ dev' = [dev EXCEPT !.crtc = found] /\ UNCHANGED i
          /\ found \in DOMAIN board.crtcs \ Used
      BY <1>4, <1>5, <1>7
    <2>2. dev' \in Devs /\ dev'.crtc = found
      <3>1. found \in Nat /\ dev \in Devs
        BY <2>1, BoardFacts DEF MInv, Types
      <3>2. QED
        BY <2>1, <3>1 DEF Devs
    <2>3. Types'
      BY <1>1, <1>3, <2>1, <2>2 DEF MInv, Types, kernel, Places, Setup
    <2>4. Apart'
      BY <1>1, <2>1, <2>2, ListKept DEF MInv, Apart, Setup, Built, Freeing
    <2>5. Accounted'
      BY <1>1, <2>1, <2>3, KernelKept DEF kernel, Built, Freeing
    <2>6. QED
      BY <2>3, <2>4, <2>5 DEF MInv
  <1>8. QED
    BY <1>5, <1>6, <1>7

\* The number of the device being set up is none of the board's and no device's.
LEMMA FreshIsFree ==
    ASSUME MInv, pc \in Setup
    PROVE  Fresh \in Nat /\ Fresh > 100 /\ Fresh \notin Owned /\ Fresh \notin Theirs /\ Fresh # None
  <1>1. Fresh \in Nat /\ Fresh > 100 /\ Fresh # None
    BY DEF MInv, Types, Fresh, None
  <1>2. Fresh \notin Owned
    <2>1. \A k \in DOMAIN modeset_list : modeset_list[k].buffer < 100 + i
      BY DEF MInv, Apart
    <2>2. QED
      BY <2>1 DEF Owned, Fresh, MInv, Types
  <1>3. Fresh \notin Theirs
    <2>1. \A x \in Theirs : x \in 0 .. 100
      BY BoardFacts DEF MInv
    <2>2. Fresh \notin 0 .. 100
      BY <1>1
    <2>3. QED
      BY <2>1, <2>2
  <1>4. QED
    BY <1>1, <1>2, <1>3

LEMMA CreateDumbStep ==
    ASSUME MInv, CreateDumb PROVE MInv'
  <1>1. /\ pc = "dumb" /\ UNCHANGED <<board, crtcs, fbs, maps, modeset_list, failed>>
        /\ i \in DOMAIN board.connectors /\ dev.crtc \in DOMAIN board.crtcs \ Used
    BY DEF CreateDumb, MInv, Apart, Setup
  <1>2. faults' \in 0 .. MaxFaults
    BY FaultsStep DEF CreateDumb, MInv
  <1>3. CASE NextConnector /\ UNCHANGED dumbs
    BY <1>1, <1>2, <1>3, NextConnectorOnly DEF Setup, Built
  <1>4. CASE /\ dumbs' = dumbs \cup {Fresh} /\ dev' = [dev EXCEPT !.buffer = Fresh]
             /\ pc' = "addfb" /\ UNCHANGED i
    <2>1. dev' \in Devs /\ dev'.buffer = Fresh /\ dev'.crtc = dev.crtc
      <3>1. Fresh \in Nat /\ dev \in Devs
        BY <1>1, FreshIsFree DEF MInv, Types, Setup
      <3>2. QED
        BY <1>4, <3>1 DEF Devs
    <2>2. Types'
      BY <1>1, <1>2, <1>4, <2>1 DEF MInv, Types, Places, Setup
    <2>3. Apart'
      BY <1>1, <1>4, <2>1, ListKept DEF MInv, Apart, Setup, Built, Freeing, Fresh
    <2>4. Accounted'
      BY <1>1, <1>4, <2>1, ListKept DEF MInv, Accounted, At, Built, Freeing
    <2>5. QED
      BY <2>2, <2>3, <2>4 DEF MInv
  <1>5. QED
    BY <1>3, <1>4 DEF CreateDumb

LEMMA AddFbStep ==
    ASSUME MInv, AddFb PROVE MInv'
  <1>1. /\ pc = "addfb" /\ UNCHANGED <<board, crtcs, dumbs, maps, modeset_list, dev, i, failed>>
        /\ \/ fbs' = fbs \cup {dev.buffer} /\ pc' = "map"
           \/ pc' = "err_destroy" /\ UNCHANGED fbs
    BY DEF AddFb
  <1>2. faults' \in 0 .. MaxFaults
    BY FaultsStep DEF AddFb, MInv
  <1>3. Types'
    BY <1>1, <1>2 DEF MInv, Types, Places, Setup
  <1>4. Apart'
    BY <1>1, ListKept DEF MInv, Apart, Setup, Built, Freeing, Fresh
  <1>5. Accounted'
    BY <1>1, ListKept DEF MInv, Accounted, At, Built, Freeing
  <1>6. QED
    BY <1>3, <1>4, <1>5 DEF MInv

\* A device that joins the list brings its own CRTC and buffer.
LEMMA ListGrows ==
    ASSUME MInv, modeset_list' = <<dev>> \o modeset_list, UNCHANGED board
    PROVE  /\ Owned' = Owned \cup {dev.buffer} /\ Theirs' = Theirs
           /\ modeset_list' \in Seq(Devs)
           /\ \A k \in DOMAIN modeset_list' :
                 modeset_list'[k] = dev \/ \E l \in DOMAIN modeset_list : modeset_list'[k] = modeset_list[l]
  <1> DEFINE t == modeset_list'
  <1>0. modeset_list \in Seq(Devs) /\ dev \in Devs
    BY DEF MInv, Types
  <1>1. /\ t \in Seq(Devs) /\ Len(t) = Len(modeset_list) + 1 /\ t[1] = dev /\ 1 \in DOMAIN t
        /\ \A k \in DOMAIN t : k # 1 => k - 1 \in DOMAIN modeset_list /\ t[k] = modeset_list[k - 1]
        /\ \A k \in DOMAIN modeset_list : k + 1 \in DOMAIN t /\ t[k + 1] = modeset_list[k]
    BY <1>0, Joins
  <1> HIDE DEF t
  <1>2. \A k \in DOMAIN t : t[k] = dev \/ \E l \in DOMAIN modeset_list : t[k] = modeset_list[l]
    BY <1>1
  <1>3. {t[k].buffer : k \in DOMAIN t} = Owned \cup {dev.buffer}
    <2>1. {t[k].buffer : k \in DOMAIN t} \subseteq Owned \cup {dev.buffer}
      BY <1>2 DEF Owned
    <2>2. Owned \subseteq {t[k].buffer : k \in DOMAIN t}
      BY <1>1 DEF Owned
    <2>3. dev.buffer \in {t[k].buffer : k \in DOMAIN t}
      BY <1>1
    <2>4. QED
      BY <2>1, <2>2, <2>3
  <1>4. Owned' = {t[k].buffer : k \in DOMAIN t} /\ Theirs' = Theirs
    BY DEF t, Owned, Theirs
  <1>5. QED
    BY <1>1, <1>2, <1>3, <1>4 DEF t

LEMMA MapStep ==
    ASSUME MInv, Map PROVE MInv'
  <1>1. pc = "map" /\ UNCHANGED <<board, crtcs, fbs, dumbs, failed>> /\ pc \in Setup
    BY DEF Map, Setup
  <1>2. /\ faults' \in 0 .. MaxFaults /\ dev.buffer = Fresh
        /\ dev.crtc \in DOMAIN board.crtcs /\ dev.crtc \notin Used
    BY <1>1, FaultsStep DEF Map, MInv, Apart, Built
  <1>3. CASE pc' = "err_fb" /\ UNCHANGED <<maps, modeset_list, dev, i>>
    <2>1. Types'
      BY <1>1, <1>2, <1>3 DEF MInv, Types, Places, Setup
    <2>2. Apart'
      BY <1>1, <1>3, ListKept DEF MInv, Apart, Setup, Built, Freeing, Fresh
    <2>3. Accounted'
      BY <1>1, <1>3, ListKept DEF MInv, Accounted, At, Built, Freeing
    <2>4. QED
      BY <2>1, <2>2, <2>3 DEF MInv
  <1>4. CASE maps' = maps \cup {dev.buffer} /\ modeset_list' = <<dev>> \o modeset_list /\ NextConnector
    <2>1. pc' = "connector" /\ i' = i + 1 /\ dev' = NoDev /\ i \in Nat \ {0}
      BY <1>4 DEF NextConnector, MInv, Types
    <2>2. /\ Owned' = Owned \cup {dev.buffer} /\ Theirs' = Theirs
          /\ modeset_list' \in Seq(Devs)
          /\ \A k \in DOMAIN modeset_list' :
                modeset_list'[k] = dev \/ \E l \in DOMAIN modeset_list : modeset_list'[k] = modeset_list[l]
      BY <1>1, <1>4, ListGrows
    <2>3. Types'
      BY <1>1, <1>2, <2>1, <2>2, NoDevTyped DEF MInv, Types, Places, Setup
    <2>4. Apart'
      <3> DEFINE t == modeset_list'
      <3>0. modeset_list \in Seq(Devs) /\ dev \in Devs
        BY DEF MInv, Types
      <3>1. /\ t[1] = dev /\ 1 \in DOMAIN t
            /\ \A k \in DOMAIN t : k # 1 => k - 1 \in DOMAIN modeset_list /\ t[k] = modeset_list[k - 1]
            /\ DOMAIN t \subseteq Int
        BY <1>4, <2>2, <3>0, Joins
      <3>2. dev.buffer = 100 + i /\ dev.buffer > 100
        BY <1>1, <1>2, FreshIsFree DEF Fresh
      <3>3. \A k \in DOMAIN modeset_list :
               /\ modeset_list[k].crtc \in DOMAIN board.crtcs
               /\ modeset_list[k].buffer > 100 /\ modeset_list[k].buffer < 100 + i
               /\ modeset_list[k].buffer \in Nat
               /\ modeset_list[k].crtc # dev.crtc /\ modeset_list[k].buffer # dev.buffer
        <4>1. \A k \in DOMAIN modeset_list : modeset_list[k].buffer \in Nat
          <5>1. \A k \in DOMAIN modeset_list : modeset_list[k] \in Devs
            BY <3>0
          <5>2. \A d \in Devs : d.buffer \in Nat
            BY DEF Devs
          <5>3. QED
            BY <5>1, <5>2
        <4>2. \A k \in DOMAIN modeset_list :
                 /\ modeset_list[k].crtc \in DOMAIN board.crtcs
                 /\ modeset_list[k].buffer > 100 /\ modeset_list[k].buffer < 100 + i
          BY <1>1 DEF MInv, Apart
        <4>3. \A k \in DOMAIN modeset_list : modeset_list[k].crtc # dev.crtc
          BY <1>2 DEF Used
        <4>4. QED
          BY <2>1, <3>2, <4>1, <4>2, <4>3
      <3>4. \A k \in DOMAIN t : /\ t[k].crtc \in DOMAIN board.crtcs
                                /\ t[k].buffer > 100 /\ t[k].buffer < 100 + i'
        <4>1. 100 + i < 100 + i' /\ dev.buffer < 100 + i'
          BY <2>1, <3>2
        <4>2. ASSUME NEW k \in DOMAIN t, t[k] = dev
              PROVE  /\ t[k].crtc \in DOMAIN board.crtcs
                     /\ t[k].buffer > 100 /\ t[k].buffer < 100 + i'
          BY <1>2, <3>2, <4>1, <4>2
        <4>3. ASSUME NEW k \in DOMAIN t, NEW l \in DOMAIN modeset_list, t[k] = modeset_list[l]
              PROVE  /\ t[k].crtc \in DOMAIN board.crtcs
                     /\ t[k].buffer > 100 /\ t[k].buffer < 100 + i'
          BY <2>1, <3>3, <4>3
        <4>4. QED
          BY <2>2, <4>2, <4>3
      <3>5. ASSUME NEW k \in DOMAIN t, NEW l \in DOMAIN t, k # l
            PROVE  t[k].crtc # t[l].crtc /\ t[k].buffer # t[l].buffer
        <4>1. CASE k = 1 \/ l = 1
          BY <3>1, <3>3, <3>5, <4>1
        <4>2. CASE k # 1 /\ l # 1
          <5>1. /\ k - 1 \in DOMAIN modeset_list /\ l - 1 \in DOMAIN modeset_list /\ k - 1 # l - 1
                /\ t[k] = modeset_list[k - 1] /\ t[l] = modeset_list[l - 1]
            BY <3>1, <3>5, <4>2
          <5>2. QED
            BY <5>1 DEF MInv, Apart
        <4>3. QED
          BY <4>1, <4>2
      <3> HIDE DEF t
      <3>6. QED
        BY <1>1, <2>1, <3>4, <3>5 DEF Apart, Setup, Built, Freeing, t
    <2>5. Accounted'
      BY <1>1, <1>4, <2>1, <2>2 DEF MInv, Accounted, At, Built, Freeing
    <2>6. QED
      BY <2>3, <2>4, <2>5 DEF MInv
  <1>5. QED
    BY <1>3, <1>4 DEF Map

-----------------------------------------------------------------------------
\* What the kernel's requests keep of a CRTC: it shows what exists or nothing.
ShowsWhatIs(state, exist) ==
    /\ state \in [DOMAIN board.crtcs -> [fb : Nat, conn : Nat]]
    /\ \A c \in DOMAIN board.crtcs : state[c].fb \in exist \cup {None}

LEMMA OffTyped == Off \in [fb : Nat, conn : Nat] /\ Off.fb = None
  BY DEF Off, None

\* Requests to release something: it is gone, or refused and remembered.
Released(old, new, n, refused) == /\ new \subseteq old /\ old \ {n} \subseteq new
                                  /\ n \in new => n \in refused

LEMMA RmFbKeeps ==
    ASSUME ShowsWhatIs(crtcs, fbs), failed \in Refused, NEW x \in Nat, drmModeRmFB(x)
    PROVE  /\ ShowsWhatIs(crtcs', fbs') /\ Released(fbs, fbs', x, failed'.fb)
           /\ failed' \in Refused /\ failed.fb \subseteq failed'.fb
           /\ failed'.map = failed.map /\ failed'.dumb = failed.dumb /\ failed'.save = failed.save
           /\ Succeeds \/ Fails
  <1>1. CASE /\ Succeeds /\ UNCHANGED failed /\ fbs' = fbs \ {x}
             /\ crtcs' = [c \in DOMAIN crtcs |-> IF crtcs[c].fb = x THEN Off ELSE crtcs[c]]
    <2>1. crtcs' = [c \in DOMAIN board.crtcs |-> IF crtcs[c].fb = x THEN Off ELSE crtcs[c]]
      BY <1>1 DEF ShowsWhatIs
    <2>2. crtcs' \in [DOMAIN board.crtcs -> [fb : Nat, conn : Nat]]
      BY <2>1, OffTyped DEF ShowsWhatIs
    <2>3. \A c \in DOMAIN board.crtcs : crtcs'[c].fb \in fbs' \cup {None}
      BY <1>1, <2>1, OffTyped DEF ShowsWhatIs
    <2>4. QED
      BY <1>1, <2>2, <2>3 DEF ShowsWhatIs, Released
  <1>2. CASE /\ Fails /\ failed' = [failed EXCEPT !.fb = @ \cup {x}] /\ UNCHANGED <<fbs, crtcs>>
    <2>1. /\ failed' \in Refused /\ failed'.fb = failed.fb \cup {x}
          /\ failed'.save = failed.save /\ failed'.map = failed.map /\ failed'.dumb = failed.dumb
      BY <1>2, Refusing
    <2>2. QED
      BY <1>2, <2>1 DEF ShowsWhatIs, Released
  <1>3. QED
    BY <1>1, <1>2 DEF drmModeRmFB

LEMMA DestroyKeeps ==
    ASSUME failed \in Refused, NEW n \in Nat, DestroyDumb(n)
    PROVE  /\ Released(dumbs, dumbs', n, failed'.dumb)
           /\ failed' \in Refused /\ failed.dumb \subseteq failed'.dumb
           /\ failed'.map = failed.map /\ failed'.fb = failed.fb /\ failed'.save = failed.save
           /\ Succeeds \/ Fails
  <1>1. CASE Succeeds /\ dumbs' = dumbs \ {n} /\ UNCHANGED failed
    BY <1>1 DEF Released
  <1>2. CASE Fails /\ failed' = [failed EXCEPT !.dumb = @ \cup {n}] /\ UNCHANGED dumbs
    <2>1. /\ failed' \in Refused /\ failed'.dumb = failed.dumb \cup {n}
          /\ failed'.save = failed.save /\ failed'.map = failed.map /\ failed'.fb = failed.fb
      BY <1>2, Refusing
    <2>2. QED
      BY <1>2, <2>1 DEF Released
  <1>3. QED
    BY <1>1, <1>2 DEF DestroyDumb

LEMMA UnmapKeeps ==
    ASSUME failed \in Refused, NEW n \in Nat, munmap(n)
    PROVE  /\ Released(maps, maps', n, failed'.map)
           /\ failed' \in Refused /\ failed.map \subseteq failed'.map
           /\ failed'.dumb = failed.dumb /\ failed'.fb = failed.fb /\ failed'.save = failed.save
           /\ Succeeds \/ Fails
  <1>1. CASE Succeeds /\ maps' = maps \ {n} /\ UNCHANGED failed
    BY <1>1 DEF Released
  <1>2. CASE Fails /\ failed' = [failed EXCEPT !.map = @ \cup {n}] /\ UNCHANGED maps
    <2>1. /\ failed' \in Refused /\ failed'.map = failed.map \cup {n}
          /\ failed'.save = failed.save /\ failed'.dumb = failed.dumb /\ failed'.fb = failed.fb
      BY <1>2, Refusing
    <2>2. QED
      BY <1>2, <2>1 DEF Released
  <1>3. QED
    BY <1>1, <1>2 DEF munmap

LEMMA DevNumber == ASSUME MInv PROVE dev.buffer \in Nat /\ failed \in Refused
  BY DEF MInv, Types, Devs

LEMMA SetCrtcKeeps ==
    ASSUME ShowsWhatIs(crtcs, fbs), NEW c, NEW fb \in Nat, NEW conn \in Nat, SetCrtc(c, fb, conn)
    PROVE  ShowsWhatIs(crtcs', fbs)
  <1>1. CASE UNCHANGED crtcs
    BY <1>1
  <1>2. CASE fb \in fbs /\ ~UNCHANGED crtcs
    <2> DEFINE new == [fb |-> fb, conn |-> conn]
    <2>1. crtcs' = [d \in DOMAIN board.crtcs |->
                      IF d = c THEN new ELSE IF crtcs[d].conn = conn THEN Off ELSE crtcs[d]]
      BY <1>2 DEF SetCrtc, ShowsWhatIs
    <2>2. new \in [fb : Nat, conn : Nat] /\ new.fb = fb
      OBVIOUS
    <2> HIDE DEF new
    <2>3. crtcs' \in [DOMAIN board.crtcs -> [fb : Nat, conn : Nat]]
      BY <2>1, <2>2, OffTyped DEF ShowsWhatIs
    <2>4. \A d \in DOMAIN board.crtcs : crtcs'[d].fb \in fbs \cup {None}
      BY <1>2, <2>1, <2>2, OffTyped DEF ShowsWhatIs
    <2>5. QED
      BY <2>3, <2>4 DEF ShowsWhatIs
  <1>3. QED
    BY <1>1, <1>2 DEF SetCrtc

LEMMA Shows == ASSUME MInv PROVE ShowsWhatIs(crtcs, fbs)
  BY DEF MInv, Types, Accounted, ShowsWhatIs

LEMMA ErrFbStep ==
    ASSUME MInv, ErrFb PROVE MInv'
  <1>1. /\ pc = "err_fb" /\ pc \in Setup /\ pc' = "err_destroy"
        /\ UNCHANGED <<board, dumbs, maps, modeset_list, dev, i>>
    BY DEF ErrFb, Setup
  <1>2. /\ ShowsWhatIs(crtcs', fbs') /\ Released(fbs, fbs', dev.buffer, failed'.fb)
        /\ failed' \in Refused /\ failed.fb \subseteq failed'.fb
        /\ failed'.map = failed.map /\ failed'.dumb = failed.dumb
        /\ Succeeds \/ Fails
    BY DevNumber, Shows, RmFbKeeps DEF ErrFb
  <1>3. dev.buffer \notin Owned /\ faults' \in 0 .. MaxFaults
    BY <1>1, <1>2, FreshIsFree, FaultsStep DEF MInv, Apart, Built
  <1>4. Types'
    BY <1>1, <1>2, <1>3 DEF MInv, Types, Places, Setup, ShowsWhatIs
  <1>5. Apart'
    BY <1>1, ListKept DEF MInv, Apart, Setup, Built, Freeing, Fresh
  <1>6. Accounted'
    <2>1. /\ fbs \subseteq (Theirs \cup Owned) \cup failed.fb \cup {dev.buffer}
          /\ dumbs \subseteq Owned \cup failed.dumb \cup {dev.buffer}
          /\ maps \subseteq Owned \cup failed.map /\ Owned \subseteq fbs \cap dumbs \cap maps
      BY <1>1 DEF MInv, Accounted, At, Built
    <2>2. fbs' \subseteq (Theirs \cup Owned) \cup failed'.fb /\ Owned \subseteq fbs'
      BY <1>2, <1>3, <2>1 DEF Released
    <2>3. QED
      BY <1>1, <1>2, <2>1, <2>2, ListKept DEF Accounted, At, Built, ShowsWhatIs
  <1>7. QED
    BY <1>4, <1>5, <1>6 DEF MInv

LEMMA ErrDestroyStep ==
    ASSUME MInv, ErrDestroy PROVE MInv'
  <1>1. /\ pc = "err_destroy" /\ pc \in Setup /\ NextConnector
        /\ UNCHANGED <<board, crtcs, fbs, maps, modeset_list>>
    BY DEF ErrDestroy, Setup
  <1>2. /\ Released(dumbs, dumbs', dev.buffer, failed'.dumb)
        /\ failed' \in Refused /\ failed.dumb \subseteq failed'.dumb
        /\ failed'.map = failed.map /\ failed'.fb = failed.fb
        /\ Succeeds \/ Fails
    BY DevNumber, DestroyKeeps DEF ErrDestroy
  <1>3. dev.buffer \notin Owned /\ faults' \in 0 .. MaxFaults
    BY <1>1, <1>2, FreshIsFree, FaultsStep DEF MInv, Apart, Built
  <1>4. /\ \A c \in DOMAIN board.crtcs : crtcs[c].fb \in fbs' \cup {None}
        /\ fbs' \subseteq Theirs \cup Owned \cup failed'.fb
        /\ dumbs' \subseteq Owned \cup failed'.dumb /\ maps' \subseteq Owned \cup failed'.map
        /\ Owned \subseteq fbs' \cap dumbs' \cap maps'
    <2>1. /\ fbs \subseteq Theirs \cup Owned \cup failed.fb
          /\ dumbs \subseteq Owned \cup failed.dumb \cup {dev.buffer}
          /\ maps \subseteq Owned \cup failed.map /\ Owned \subseteq fbs \cap dumbs \cap maps
          /\ \A c \in DOMAIN board.crtcs : crtcs[c].fb \in fbs \cup {None}
      BY <1>1 DEF MInv, Accounted, At, Built, Freeing
    <2>2. dumbs' \subseteq Owned \cup failed'.dumb /\ Owned \subseteq dumbs'
      BY <1>2, <1>3, <2>1 DEF Released
    <2>3. QED
      BY <1>1, <1>2, <2>1, <2>2
  <1>5. QED
    BY <1>1, <1>2, <1>3, <1>4, NextConnectorStep

LEMMA PreparedStep ==
    ASSUME MInv, Prepared PROVE MInv'
  <1>1. pc = "connector" /\ pc' = "save" /\ i' = 1 /\ UNCHANGED <<board, kernel, modeset_list, dev, faults, failed>>
    BY DEF Prepared
  <1>2. Types'
    BY <1>1 DEF MInv, Types, kernel, Places, Setup
  <1>3. Apart'
    BY <1>1 DEF MInv, Apart, Setup, Built, Freeing
  <1>4. Accounted'
    BY <1>1, <1>2, KernelKept DEF kernel, Built, Freeing
  <1>5. QED
    BY <1>2, <1>3, <1>4 DEF MInv

LEMMA SaveStep ==
    ASSUME MInv, SaveCrtc PROVE MInv'
  <1>1. /\ pc = "save" /\ pc' = "show" /\ i \in DOMAIN modeset_list
        /\ UNCHANGED <<board, kernel, dev, i>>
    BY DEF SaveCrtc, MInv, Types
  <1>2. faults' \in 0 .. MaxFaults
    BY FaultsStep DEF SaveCrtc, MInv
  <1>3. /\ modeset_list' \in Seq(Devs) /\ DOMAIN modeset_list' = DOMAIN modeset_list
        /\ \A k \in DOMAIN modeset_list : /\ modeset_list'[k].crtc = modeset_list[k].crtc
                                          /\ modeset_list'[k].buffer = modeset_list[k].buffer
    <2>1. CASE UNCHANGED modeset_list
      BY <2>1 DEF MInv, Types
    <2>2. CASE modeset_list' = [modeset_list EXCEPT ![i].saved =
                                  [known |-> TRUE, fb |-> crtcs[Device.crtc].fb]]
      <3>1. crtcs[Device.crtc].fb \in Nat
        BY <1>1 DEF MInv, Types, Apart, Device
      <3>2. [known |-> TRUE, fb |-> crtcs[Device.crtc].fb] \in Saves
        BY <3>1 DEF Saves
      <3>3. modeset_list \in Seq(Devs)
        BY DEF MInv, Types
      <3> DEFINE v == [known |-> TRUE, fb |-> crtcs[Device.crtc].fb]
      <3>4. v \in Saves /\ modeset_list' = [modeset_list EXCEPT ![i].saved = v]
        BY <2>2, <3>2
      <3> HIDE DEF v
      <3>5. QED
        BY <1>1, <3>3, <3>4, Saving
    <2>3. QED
      BY <2>1, <2>2 DEF SaveCrtc
  <1>9. /\ failed' \in Refused /\ failed'.fb = failed.fb
        /\ failed'.map = failed.map /\ failed'.dumb = failed.dumb
    <2>1. Device.crtc \in Nat /\ failed \in Refused
      BY <1>1, BoardFacts DEF MInv, Types, Apart, Device
    <2>2. UNCHANGED failed \/ failed' = [failed EXCEPT !.save = @ \cup {Device.crtc}]
      BY DEF SaveCrtc
    <2>3. QED
      BY <2>1, <2>2, Refusing
  <1>4. Owned' = Owned /\ Used' = Used /\ Theirs' = Theirs
    <2>1. Owned' = Owned
      BY <1>3 DEF Owned
    <2>2. Used' = Used
      BY <1>3 DEF Used
    <2>3. QED
      BY <1>1, <2>1, <2>2 DEF Theirs
  <1>5. Types'
    BY <1>1, <1>2, <1>3, <1>9 DEF MInv, Types, kernel, Places, Setup
  <1>6. Apart'
    BY <1>1, <1>3 DEF MInv, Apart, Setup, Built, Freeing
  <1>7. Accounted'
    BY <1>1, <1>4, <1>9 DEF MInv, Accounted, At, Built, Freeing, kernel
  <1>8. QED
    BY <1>5, <1>6, <1>7 DEF MInv

LEMMA ShowStep ==
    ASSUME MInv, Show PROVE MInv'
  <1>1. /\ pc = "show" /\ pc' = "save" /\ i' = i + 1 /\ i \in DOMAIN modeset_list
        /\ UNCHANGED <<board, fbs, dumbs, maps, modeset_list, dev, failed>>
    BY DEF Show, MInv, Apart
  <1>2. faults' \in 0 .. MaxFaults
    BY FaultsStep DEF Show, MInv
  <1>3. ShowsWhatIs(crtcs', fbs)
    <2>1. Device.buffer \in Nat /\ Device.conn \in Nat
      <3>1. Device \in Devs
        BY <1>1 DEF MInv, Types, Device
      <3>2. QED
        BY <3>1 DEF Devs
    <2>2. QED
      BY <2>1, Shows, SetCrtcKeeps DEF Show
  <1>4. Types'
    BY <1>1, <1>2, <1>3 DEF MInv, Types, Places, Setup, ShowsWhatIs
  <1>5. Apart'
    BY <1>1 DEF MInv, Apart, Setup, Built, Freeing
  <1>6. Accounted'
    BY <1>1, <1>3, ListKept DEF MInv, Accounted, At, Built, Freeing, ShowsWhatIs
  <1>7. QED
    BY <1>4, <1>5, <1>6 DEF MInv

LEMMA DrawStep ==
    ASSUME MInv, modeset_draw PROVE MInv'
  <1>1. /\ pc = "save" /\ pc' \in {"crashed", "restore"} /\ i' = 1
        /\ UNCHANGED <<board, kernel, modeset_list, dev, faults, failed>>
    BY DEF modeset_draw
  <1>2. Types'
    BY <1>1 DEF MInv, Types, kernel, Places, Setup
  <1>3. Apart'
    BY <1>1 DEF MInv, Apart, Setup, Built, Freeing
  <1>4. Accounted'
    BY <1>1, <1>2, KernelKept DEF kernel, Built, Freeing
  <1>5. QED
    BY <1>2, <1>3, <1>4 DEF MInv

LEMMA RestoreStep ==
    ASSUME MInv, Restore PROVE MInv'
  <1>1. pc = "restore" /\ modeset_list # <<>> /\ UNCHANGED <<board, fbs, dumbs, maps, i, failed>>
    BY DEF Restore
  <1>2. CASE pc' = "crashed" /\ UNCHANGED <<crtcs, dev, modeset_list, faults>>
    <2>1. Types'
      BY <1>1, <1>2 DEF MInv, Types, Places, Setup
    <2>2. Apart'
      BY <1>1, <1>2 DEF MInv, Apart, Setup, Built, Freeing
    <2>3. Accounted'
      BY <1>1, <1>2, <2>1, KernelKept DEF Built, Freeing
    <2>4. QED
      BY <2>1, <2>2, <2>3 DEF MInv
  <1>3. CASE /\ Head(modeset_list).saved.known
             /\ \/ Succeeds /\ SetCrtc(Head(modeset_list).crtc, Head(modeset_list).saved.fb,
                                       Head(modeset_list).conn)
                \/ Fails /\ UNCHANGED crtcs
             /\ dev' = Head(modeset_list) /\ modeset_list' = Tail(modeset_list)
             /\ pc' = "unmap"
    <2> DEFINE h == Head(modeset_list)
               t == Tail(modeset_list)
    <2>1. /\ h = modeset_list[1] /\ 1 \in DOMAIN modeset_list /\ h \in Devs /\ t \in Seq(Devs)
          /\ \A k \in DOMAIN t : k + 1 \in DOMAIN modeset_list /\ t[k] = modeset_list[k + 1] /\ k + 1 # 1
          /\ \A k \in DOMAIN modeset_list : k # 1 => k - 1 \in DOMAIN t /\ t[k - 1] = modeset_list[k]
          /\ DOMAIN t \subseteq Int
      <3>1. modeset_list \in Seq(Devs)
        BY DEF MInv, Types
      <3>2. Tail(modeset_list) \in Seq(Devs)
        BY <1>1, <3>1
      <3>3. QED
        BY <1>1, <3>1, <3>2, Leaves
    <2>2. modeset_list' = t /\ dev' = h /\ pc' = "unmap"
      BY <1>3
    <2>3. faults' \in 0 .. MaxFaults
      BY <1>3, FaultsStep DEF MInv
    <2>4. ShowsWhatIs(crtcs', fbs)
      <3>1. CASE UNCHANGED crtcs
        BY <3>1, Shows
      <3>2. CASE SetCrtc(h.crtc, h.saved.fb, h.conn)
        <4>1. h.conn \in Nat /\ h.saved \in Saves
          BY <2>1 DEF Devs
        <4>2. h.saved.fb \in Nat
          BY <1>3, <4>1 DEF Saves
        <4>3. QED
          BY <3>2, <4>1, <4>2, Shows, SetCrtcKeeps
      <3>3. QED
        BY <1>3, <3>1, <3>2
    <2> HIDE DEF h, t
    <2>5. /\ h.buffer > 100
          /\ \A k \in DOMAIN t : /\ t[k].crtc \in DOMAIN board.crtcs
                                 /\ t[k].buffer > 100 /\ t[k].buffer # h.buffer
          /\ \A k, l \in DOMAIN t : k # l => t[k].crtc # t[l].crtc /\ t[k].buffer # t[l].buffer
      <3>1. h.buffer > 100
        BY <2>1 DEF MInv, Apart
      <3>2. ASSUME NEW k \in DOMAIN t
            PROVE  /\ t[k].crtc \in DOMAIN board.crtcs
                   /\ t[k].buffer > 100 /\ t[k].buffer # h.buffer
        BY <2>1 DEF MInv, Apart
      <3>3. ASSUME NEW k \in DOMAIN t, NEW l \in DOMAIN t, k # l
            PROVE  t[k].crtc # t[l].crtc /\ t[k].buffer # t[l].buffer
        <4>1. k + 1 # l + 1
          BY <2>1, <3>3
        <4>2. QED
          BY <2>1, <4>1 DEF MInv, Apart
      <3>4. QED
        BY <3>1, <3>2, <3>3
    <2>6. Owned = Owned' \cup {h.buffer} /\ h.buffer \notin Owned' /\ Theirs' = Theirs
      <3>1. Owned' = {t[k].buffer : k \in DOMAIN t}
        BY <2>2 DEF Owned
      <3>2. Owned \subseteq Owned' \cup {h.buffer}
        <4>1. ASSUME NEW k \in DOMAIN modeset_list, k # 1 PROVE modeset_list[k].buffer \in Owned'
          <5>1. k - 1 \in DOMAIN t /\ t[k - 1] = modeset_list[k]
            BY <2>1, <4>1
          <5>2. QED
            BY <3>1, <5>1
        <4>2. \A k \in DOMAIN modeset_list : modeset_list[k].buffer \in Owned' \cup {h.buffer}
          BY <2>1, <4>1
        <4>3. QED
          BY <4>2 DEF Owned
      <3>3. Owned' \cup {h.buffer} \subseteq Owned
        <4>1. \A k \in DOMAIN modeset_list : modeset_list[k].buffer \in Owned
          BY DEF Owned
        <4>2. \A k \in DOMAIN t : t[k].buffer \in Owned
          BY <2>1, <4>1
        <4>3. QED
          BY <2>1, <3>1, <4>1, <4>2
      <3>4. h.buffer \notin Owned'
        BY <2>5, <3>1
      <3>5. QED
        BY <1>1, <3>2, <3>3, <3>4 DEF Theirs
    <2>7. Types'
      BY <1>1, <2>1, <2>2, <2>3, <2>4 DEF MInv, Types, Places, Freeing, ShowsWhatIs
    <2>8. Apart'
      BY <1>1, <2>2, <2>5, <2>6 DEF Apart, Setup, Built, Freeing
    <2>9. Accounted'
      BY <1>1, <2>2, <2>4, <2>6 DEF MInv, Accounted, At, Built, Freeing, ShowsWhatIs
    <2>10. QED
      BY <2>7, <2>8, <2>9 DEF MInv
  <1>4. QED
    BY <1>2, <1>3 DEF Restore

LEMMA UnmapStep ==
    ASSUME MInv, Unmap PROVE MInv'
  <1>1. /\ pc = "unmap" /\ pc' = "rmfb" /\ dev.buffer \notin Owned
        /\ UNCHANGED <<board, crtcs, fbs, dumbs, modeset_list, dev, i>>
    BY DEF Unmap, MInv, Apart, Freeing
  <1>2. /\ Released(maps, maps', dev.buffer, failed'.map)
        /\ failed' \in Refused /\ failed.map \subseteq failed'.map
        /\ failed'.dumb = failed.dumb /\ failed'.fb = failed.fb
        /\ Succeeds \/ Fails
    BY DevNumber, UnmapKeeps DEF Unmap
  <1>3. faults' \in 0 .. MaxFaults
    BY <1>2, FaultsStep DEF MInv
  <1>4. Types'
    BY <1>1, <1>2, <1>3 DEF MInv, Types, Places, Setup, Freeing
  <1>5. Apart'
    BY <1>1, ListKept DEF MInv, Apart, Setup, Built, Freeing
  <1>6. Accounted'
    <2>1. /\ fbs \subseteq Theirs \cup Owned \cup failed.fb \cup {dev.buffer}
          /\ dumbs \subseteq Owned \cup failed.dumb \cup {dev.buffer}
          /\ maps \subseteq Owned \cup failed.map \cup {dev.buffer}
          /\ Owned \subseteq fbs \cap dumbs \cap maps
          /\ \A c \in DOMAIN board.crtcs : crtcs[c].fb \in fbs \cup {None}
      BY <1>1 DEF MInv, Accounted, At
    <2>2. maps' \subseteq Owned \cup failed'.map /\ Owned \subseteq maps'
      BY <1>1, <1>2, <2>1 DEF Released
    <2>3. QED
      BY <1>1, <1>2, <2>1, <2>2, ListKept DEF Accounted, At, Freeing
  <1>7. QED
    BY <1>4, <1>5, <1>6 DEF MInv

LEMMA FreeFbStep ==
    ASSUME MInv, FreeFb PROVE MInv'
  <1>1. /\ pc = "rmfb" /\ pc' = "destroy" /\ dev.buffer \notin Owned
        /\ UNCHANGED <<board, dumbs, maps, modeset_list, dev, i>>
    BY DEF FreeFb, MInv, Apart, Freeing
  <1>2. /\ ShowsWhatIs(crtcs', fbs') /\ Released(fbs, fbs', dev.buffer, failed'.fb)
        /\ failed' \in Refused /\ failed.fb \subseteq failed'.fb
        /\ failed'.map = failed.map /\ failed'.dumb = failed.dumb
        /\ Succeeds \/ Fails
    BY DevNumber, Shows, RmFbKeeps DEF FreeFb
  <1>3. faults' \in 0 .. MaxFaults
    BY <1>2, FaultsStep DEF MInv
  <1>4. Types'
    BY <1>1, <1>2, <1>3 DEF MInv, Types, Places, Setup, Freeing, ShowsWhatIs
  <1>5. Apart'
    BY <1>1, ListKept DEF MInv, Apart, Setup, Built, Freeing
  <1>6. Accounted'
    <2>1. /\ fbs \subseteq (Theirs \cup Owned) \cup failed.fb \cup {dev.buffer}
          /\ dumbs \subseteq Owned \cup failed.dumb \cup {dev.buffer}
          /\ maps \subseteq Owned \cup failed.map /\ Owned \subseteq fbs \cap dumbs \cap maps
      BY <1>1 DEF MInv, Accounted, At
    <2>2. fbs' \subseteq (Theirs \cup Owned) \cup failed'.fb /\ Owned \subseteq fbs'
      BY <1>1, <1>2, <2>1 DEF Released
    <2>3. QED
      BY <1>1, <1>2, <2>1, <2>2, ListKept DEF Accounted, At, Freeing, ShowsWhatIs
  <1>7. QED
    BY <1>4, <1>5, <1>6 DEF MInv

LEMMA FreeDumbStep ==
    ASSUME MInv, FreeDumb PROVE MInv'
  <1>1. /\ pc = "destroy" /\ pc' = "restore" /\ dev' = NoDev /\ dev.buffer \notin Owned
        /\ UNCHANGED <<board, crtcs, fbs, maps, modeset_list, i>>
    BY DEF FreeDumb, MInv, Apart, Freeing
  <1>2. /\ Released(dumbs, dumbs', dev.buffer, failed'.dumb)
        /\ failed' \in Refused /\ failed.dumb \subseteq failed'.dumb
        /\ failed'.map = failed.map /\ failed'.fb = failed.fb
        /\ Succeeds \/ Fails
    BY DevNumber, DestroyKeeps DEF FreeDumb
  <1>3. faults' \in 0 .. MaxFaults
    BY <1>2, FaultsStep DEF MInv
  <1>4. Types'
    BY <1>1, <1>2, <1>3, NoDevTyped DEF MInv, Types, Places, Setup
  <1>5. Apart'
    BY <1>1, ListKept DEF MInv, Apart, Setup, Built, Freeing
  <1>6. Accounted'
    <2>1. /\ fbs \subseteq Theirs \cup Owned \cup failed.fb
          /\ dumbs \subseteq Owned \cup failed.dumb \cup {dev.buffer}
          /\ maps \subseteq Owned \cup failed.map /\ Owned \subseteq fbs \cap dumbs \cap maps
          /\ \A c \in DOMAIN board.crtcs : crtcs[c].fb \in fbs \cup {None}
      BY <1>1 DEF MInv, Accounted, At
    <2>2. dumbs' \subseteq Owned \cup failed'.dumb /\ Owned \subseteq dumbs'
      BY <1>1, <1>2, <2>1 DEF Released
    <2>3. QED
      BY <1>1, <1>2, <2>1, <2>2, ListKept DEF Accounted, At, Built, Freeing
  <1>7. QED
    BY <1>4, <1>5, <1>6 DEF MInv

LEMMA ExitStep ==
    ASSUME MInv, Exit PROVE MInv'
  <1>1. pc = "restore" /\ pc' = "exit" /\ modeset_list = <<>>
        /\ UNCHANGED <<board, kernel, modeset_list, dev, i, faults, failed>>
    BY DEF Exit
  <1>2. Types'
    BY <1>1 DEF MInv, Types, kernel, Places, Setup
  <1>3. Apart'
    BY <1>1 DEF MInv, Apart, Setup, Built, Freeing
  <1>4. Accounted'
    BY <1>1, <1>2, KernelKept DEF kernel, Built, Freeing
  <1>5. QED
    BY <1>2, <1>3, <1>4 DEF MInv

LEMMA MInit == Init => MInv
  <1> SUFFICES ASSUME Init PROVE MInv
    OBVIOUS
  <1>1. /\ board \in Boards /\ crtcs = board.crtcs /\ fbs = Theirs \ {None} /\ dumbs = {} /\ maps = {}
        /\ modeset_list = <<>> /\ dev = NoDev /\ i = 1 /\ pc = "open" /\ faults = MaxFaults
        /\ failed = [save |-> {}, map |-> {}, fb |-> {}, dumb |-> {}]
    BY DEF Init, Theirs
  <1>2. board.crtcs \in [DOMAIN board.crtcs -> [fb : 0 .. 100, conn : Nat]] /\ MaxFaults \in Nat
    BY <1>1, ModesetAssumption DEF BoardOK
  <1>3. board.crtcs \in [DOMAIN board.crtcs -> [fb : Nat, conn : Nat]]
    BY <1>2
  <1>4. Types
    BY <1>1, <1>2, <1>3, NoDevTyped DEF Types, Places, Setup, Refused
  <1>5. Apart
    BY <1>1 DEF Apart, Setup, Built, Freeing
  <1>6. Accounted
    BY <1>1 DEF Accounted, At, Owned, Theirs, Built, Freeing
  <1>7. QED
    BY <1>4, <1>5, <1>6 DEF MInv

LEMMA MStep == MInv /\ [Next]_vars => MInv'
  <1> SUFFICES ASSUME MInv, [Next]_vars PROVE MInv'
    OBVIOUS
  <1>1. CASE UNCHANGED vars \/ Ended
    <2>1. UNCHANGED <<board, crtcs, fbs, dumbs, maps, modeset_list, dev, i, pc, faults, failed>>
      BY <1>1 DEF Ended, vars, kernel
    <2>2. Owned' = Owned /\ Used' = Used /\ Theirs' = Theirs
      BY <2>1, ListKept
    <2>3. Types'
      BY <2>1 DEF MInv, Types
    <2>4. Apart'
      BY <2>1, <2>2 DEF MInv, Apart, Fresh
    <2>5. Accounted'
      BY <2>1, <2>2 DEF MInv, Accounted, At
    <2>6. QED
      BY <2>3, <2>4, <2>5 DEF MInv
  <1>2. QED
    BY <1>1, OpenStep, SetupStep, FindStep, CreateDumbStep, AddFbStep, MapStep, ErrFbStep,
       ErrDestroyStep, PreparedStep, SaveStep, ShowStep, DrawStep, RestoreStep, UnmapStep,
       FreeFbStep, FreeDumbStep, ExitStep
       DEF Next

\* The inductive invariant: types, CRTCs and buffers apart, and an exact account
\* of what exists at each place of modeset_prepare and modeset_cleanup.
THEOREM ModesetInvariant == Spec => []MInv
  BY MInit, MStep, PTL DEF Spec

\* The types of the program's and the kernel's state.
THEOREM ModesetTypes == Spec => []ModesetTypeOK
  <1>1. MInv => ModesetTypeOK
    BY DEF MInv, Types, Apart, Accounted, ModesetTypeOK
  <1>2. QED
    BY <1>1, ModesetInvariant, PTL

\* modeset_find_crtc never gives a CRTC to two devices, on any board.
THEOREM CrtcsApart == Spec => []OneDevicePerCrtc
  <1>1. MInv => OneDevicePerCrtc
    BY DEF MInv, Apart, OneDevicePerCrtc
  <1>2. QED
    BY <1>1, ModesetInvariant, PTL

\* The error paths of modeset_create_fb and modeset_cleanup leave no
\* framebuffer, dumb buffer or mapping behind but those the kernel refused to
\* release, whichever requests fail.
THEOREM NoLeaks == Spec => []NothingLeaks
  <1>1. MInv => NothingLeaks
    <2> SUFFICES ASSUME MInv PROVE NothingLeaks
      OBVIOUS
    <2> DEFINE mine == fbs \ Theirs
    <2>1. /\ mine \subseteq Owned \cup {dev.buffer} \cup failed.fb
          /\ dumbs \subseteq Owned \cup {dev.buffer} \cup failed.dumb
          /\ maps \subseteq Owned \cup {dev.buffer} \cup failed.map
          /\ Owned \subseteq fbs \cap dumbs \cap maps
      BY DEF MInv, Accounted, At
    <2>2. ASSUME pc = "exit"
          PROVE  mine \subseteq failed.fb /\ dumbs \subseteq failed.dumb /\ maps \subseteq failed.map
      <3>1. Owned = {}
        BY <2>2 DEF MInv, Apart, Owned
      <3>2. QED
        BY <2>2, <3>1 DEF MInv, Accounted, At, Built, Freeing
    <2>3. QED
      BY <2>1, <2>2 DEF NothingLeaks, Theirs
  <1>2. QED
    BY <1>1, ModesetInvariant, PTL

-----------------------------------------------------------------------------
\* No request has failed so far, and the connectors in use come first.
Calm == faults = MaxFaults /\ UsedFirst

\* The devices whose CRTC shows their framebuffer, and whose CRTC's state is
\* saved.
OnScreen == IF pc \in Setup \cup {"open"} THEN {}
            ELSE IF pc \in {"save", "show"} THEN {k \in DOMAIN modeset_list : k < i}
            ELSE DOMAIN modeset_list
Known == OnScreen \cup (IF pc = "show" THEN {i} ELSE {})

\* A device's CRTC drove its connector before, or was off; no other drove it.
Fits(d) ==
    /\ d.conn # None
    /\ board.crtcs[d.crtc] = Off \/ board.crtcs[d.crtc].conn = d.conn
    /\ \A c \in DOMAIN board.crtcs : board.crtcs[c].conn = d.conn => c = d.crtc

Picture(d) == [fb |-> d.buffer, conn |-> d.conn]

\* Where a device is off the list and its framebuffer not removed yet.
Leaving == {"unmap", "rmfb"}

\* Every device on a screen has it to itself and all other CRTCs are as found.
Displayed ==
    \A c \in DOMAIN board.crtcs :
        \/ \E k \in OnScreen : modeset_list[k].crtc = c /\ crtcs[c] = Picture(modeset_list[k])
        \/ (\A k \in OnScreen : modeset_list[k].crtc # c) /\ crtcs[c] = board.crtcs[c]
        \/ /\ pc \in Leaving /\ c = dev.crtc
           /\ board.crtcs[c] = Off /\ crtcs[c] = Picture(dev)

Remembered ==
    \A k \in Known : modeset_list[k].saved
                        = [known |-> TRUE, fb |-> board.crtcs[modeset_list[k].crtc].fb]

\* The list has a device for every connector in use that was reached, and no
\* two for the same.
Listed ==
    /\ \A k \in DOMAIN modeset_list : Fits(modeset_list[k])
    /\ \A k, l \in DOMAIN modeset_list : k # l => modeset_list[k].conn # modeset_list[l].conn
    /\ pc \in Setup =>
          /\ \A k \in DOMAIN modeset_list : \E j \in 1 .. i - 1 :
                modeset_list[k].conn = board.connectors[j].id
          /\ \A j \in DOMAIN board.connectors : j < i /\ board.connectors[j].encoder # None =>
                \E k \in DOMAIN modeset_list : modeset_list[k].conn = board.connectors[j].id
    /\ pc \in Setup \ {"connector"} => dev.conn = Connector.id
    /\ pc \in {"dumb", "addfb", "map"} \cup Leaving => Fits(dev)
    /\ pc \in Leaving => /\ dev.crtc \in DOMAIN board.crtcs \ Used
                         /\ \A k \in DOMAIN modeset_list : modeset_list[k].conn # dev.conn
    /\ pc = "open" => i = 1
    /\ pc \notin {"err_fb", "err_destroy"}

Restorable == /\ Theirs \ {None} \subseteq fbs /\ None \notin fbs
              /\ Calm => Listed /\ Displayed /\ Remembered

RInv == MInv /\ Restorable

LEMMA FaultFree ==
    ASSUME MInv, Calm', faults' = faults \/ Fails, UNCHANGED board
    PROVE  Calm /\ UNCHANGED faults
  <1>1. faults \in 0 .. MaxFaults /\ MaxFaults \in Nat
    BY BoardFacts DEF MInv, Types
  <1>2. UNCHANGED faults
    BY <1>1 DEF Calm, Fails
  <1>3. QED
    BY <1>2 DEF Calm, UsedFirst

\* What a board's connector in use and its CRTC say of each other.
InUse(j) == board.connectors[j].encoder # None
Home(j) == board.encoders[board.connectors[j].encoder].crtc

LEMMA Wiring ==
    ASSUME MInv
    PROVE  /\ \A j \in DOMAIN board.connectors : InUse(j) =>
                 /\ Home(j) \in DOMAIN board.crtcs /\ Home(j) # None
                 /\ board.crtcs[Home(j)].conn = board.connectors[j].id
           /\ \A c \in DOMAIN board.crtcs : board.crtcs[c] # Off =>
                 \E j \in DOMAIN board.connectors :
                    /\ InUse(j) /\ Home(j) = c /\ board.crtcs[c].conn = board.connectors[j].id
                    /\ board.crtcs[c].fb # None
           /\ \A j, k \in DOMAIN board.connectors :
                 board.connectors[j].id = board.connectors[k].id => j = k
           /\ \A j \in DOMAIN board.connectors :
                 /\ board.connectors[j].id # None
                 /\ board.connectors[j].size # 0 => board.connectors[j].connected
           /\ DOMAIN board.connectors = 1 .. Len(board.connectors) /\ Len(board.connectors) \in Nat
  <1>1. BoardOK(board)
    BY ModesetAssumption DEF MInv, Types
  <1> DEFINE R == [id : Nat \ {None}, connected : BOOLEAN, size : Nat,
                   encoder : DOMAIN board.encoders \cup {None},
                   encoders : Seq(DOMAIN board.encoders)]
  <1>2. board.connectors \in Seq(R)
    BY <1>1 DEF BoardOK
  <1>3. \A r \in R : r.id # None /\ r.encoder \in DOMAIN board.encoders \cup {None}
    OBVIOUS
  <1> HIDE DEF R
  <1>4. \A j \in DOMAIN board.connectors :
           /\ board.connectors[j].id # None
           /\ board.connectors[j].encoder \in DOMAIN board.encoders \cup {None}
    BY <1>2, <1>3
  <1>5. \A j \in DOMAIN board.connectors : InUse(j) =>
           /\ Home(j) \in DOMAIN board.crtcs /\ Home(j) # None
           /\ board.crtcs[Home(j)].conn = board.connectors[j].id
    <2> SUFFICES ASSUME NEW j \in DOMAIN board.connectors, InUse(j)
                 PROVE  /\ Home(j) \in DOMAIN board.crtcs /\ Home(j) # None
                        /\ board.crtcs[Home(j)].conn = board.connectors[j].id
      OBVIOUS
    <2>1. board.connectors[j].encoder \in DOMAIN board.encoders
      BY <1>4 DEF InUse
    <2>2. Home(j) \in DOMAIN board.crtcs \cup {None}
      BY <1>1, <2>1 DEF BoardOK, Home
    <2>3. Home(j) # None /\ board.crtcs[Home(j)].conn = board.connectors[j].id
      BY <1>1 DEF BoardOK, InUse, Home
    <2>4. QED
      BY <2>2, <2>3
  <1>6. \A c \in DOMAIN board.crtcs : board.crtcs[c] # Off =>
           \E j \in DOMAIN board.connectors :
              /\ InUse(j) /\ Home(j) = c /\ board.crtcs[c].conn = board.connectors[j].id
              /\ board.crtcs[c].fb # None
    BY <1>1 DEF BoardOK, InUse, Home, Off
  <1>7. DOMAIN board.connectors = 1 .. Len(board.connectors) /\ Len(board.connectors) \in Nat
    BY <1>2
  <1>8. QED
    BY <1>1, <1>4, <1>5, <1>6, <1>7 DEF BoardOK


\* While devices are set up, no screen changes.
LEMMA SetupScreens ==
    ASSUME Displayed, UNCHANGED <<board, crtcs>>,
           pc \in Setup \cup {"open"}, pc' \in Setup \cup {"open"}
    PROVE  Displayed' /\ Remembered'
  <1>1. OnScreen = {} /\ OnScreen' = {} /\ Known' = {} /\ pc \notin Leaving /\ pc' \notin Leaving
    BY DEF OnScreen, Known, Setup, Leaving
  <1>2. QED
    BY <1>1 DEF Displayed, Remembered

LEMMA OpenRestorable ==
    ASSUME RInv, modeset_open PROVE Restorable'
  <1>1. pc = "open" /\ UNCHANGED <<board, kernel, modeset_list, dev, i>>
    BY DEF modeset_open
  <1>2. Theirs' = Theirs
    BY <1>1 DEF Theirs
  <1>3. ASSUME Calm' PROVE Listed' /\ Displayed' /\ Remembered'
    <2>1. Calm /\ UNCHANGED faults
      BY <1>1, <1>3, FaultFree DEF RInv, modeset_open, Succeeds
    <2>2. pc' = "connector" /\ Listed /\ Displayed
      <3>1. ~Fails
        BY <2>1, BoardFacts DEF Fails, RInv, MInv, Types
      <3>2. QED
        BY <2>1, <3>1 DEF modeset_open, RInv, Restorable
    <2>3. Displayed' /\ Remembered'
      BY <1>1, <2>2, SetupScreens DEF kernel, Setup
    <2>4. modeset_list = <<>> /\ i' = 1
      BY <1>1, <2>2 DEF RInv, MInv, Apart, Listed, Leaving
    <2>5. Listed'
      <3>1. \A j \in DOMAIN board.connectors : ~(j < i')
        BY <2>4, Wiring DEF RInv
      <3>2. QED
        BY <1>1, <2>2, <2>4, <3>1 DEF Listed, Leaving
    <2>6. QED
      BY <2>3, <2>5
  <1>4. QED
    BY <1>1, <1>2, <1>3 DEF RInv, Restorable, kernel

\* A connector that gets no device is not in use.
LEMMA NextListed ==
    ASSUME RInv, Listed, NextConnector, UNCHANGED <<board, modeset_list>>,
           pc \in Setup, i \in DOMAIN board.connectors, ~InUse(i)
    PROVE  Listed'
  <1>1. pc' = "connector" /\ i' = i + 1 /\ i \in Nat
    BY Wiring DEF NextConnector, RInv
  <1>2. \A k \in DOMAIN modeset_list : \E j \in 1 .. i' - 1 :
           modeset_list[k].conn = board.connectors[j].id
    <2>1. \A k \in DOMAIN modeset_list : \E j \in 1 .. i - 1 :
             modeset_list[k].conn = board.connectors[j].id
      BY DEF Listed, Leaving
    <2>2. 1 .. i - 1 \subseteq 1 .. i' - 1
      BY <1>1
    <2>3. QED
      BY <2>1, <2>2
  <1>3. \A j \in DOMAIN board.connectors : j < i' /\ InUse(j) => j < i
    BY <1>1, Wiring DEF RInv
  <1>4. \A j \in DOMAIN board.connectors : j < i' /\ board.connectors[j].encoder # None =>
           \E k \in DOMAIN modeset_list : modeset_list[k].conn = board.connectors[j].id
    BY <1>3 DEF Listed, InUse, Leaving
  <1>5. QED
    BY <1>1, <1>2, <1>4 DEF Listed, Fits, Setup, Leaving

LEMMA SetupRestorable ==
    ASSUME RInv, modeset_setup_dev PROVE Restorable'
  <1>1. /\ pc = "connector" /\ i <= Len(board.connectors) /\ UNCHANGED <<board, kernel, modeset_list>>
        /\ i \in DOMAIN board.connectors
    BY BoardFacts DEF modeset_setup_dev, RInv, MInv, Types
  <1>2. Theirs' = Theirs
    BY <1>1 DEF Theirs
  <1>3. ASSUME Calm' PROVE Listed' /\ Displayed' /\ Remembered'
    <2>1. Calm /\ UNCHANGED faults
      BY <1>1, <1>3, FaultFree DEF RInv, modeset_setup_dev, Succeeds
    <2>2. /\ Listed /\ Displayed
          /\ IF Connector.connected /\ Connector.size # 0
             THEN /\ dev' = [NoDev EXCEPT !.conn = Connector.id, !.size = Connector.size]
                  /\ pc' = "crtc" /\ UNCHANGED i
             ELSE NextConnector
      <3>1. ~Fails
        BY <2>1, BoardFacts DEF Fails, RInv, MInv, Types
      <3>2. QED
        BY <2>1, <3>1 DEF modeset_setup_dev, RInv, Restorable
    <2>3. Displayed' /\ Remembered'
      BY <1>1, <2>2, SetupScreens DEF kernel, Setup, NextConnector
    <2>4. CASE Connector.connected /\ Connector.size # 0
      <3>1. pc' = "crtc" /\ UNCHANGED i /\ dev'.conn = Connector.id
        BY <2>2, <2>4 DEF NoDev
      <3>2. Connector' = Connector
        BY <1>1, <3>1 DEF Connector
      <3>3. QED
        BY <1>1, <2>2, <2>3, <3>1, <3>2 DEF Listed, Fits, Setup, Leaving
    <2>5. CASE ~(Connector.connected /\ Connector.size # 0)
      <3>1. ~InUse(i)
        <4>1. InUse(i) => board.connectors[i].size # 0
          BY <1>1, <2>1 DEF Calm, UsedFirst, InUse
        <4>2. QED
          BY <1>1, <2>5, <4>1, Wiring DEF Connector, RInv
      <3>2. QED
        BY <1>1, <2>2, <2>3, <2>5, <3>1, NextListed DEF Setup
    <2>6. QED
      BY <2>4, <2>5
  <1>4. QED
    BY <1>1, <1>2, <1>3 DEF RInv, Restorable, kernel


\* A connector in use keeps its CRTC, which no device has; one that is not in
\* use gets a CRTC that was off, since all that were not are taken by then.
LEMMA UsedFits ==
    ASSUME RInv, Calm, pc = "crtc"
    PROVE  /\ InUse(i) => Home(i) \notin Used
           /\ \A c \in DOMAIN board.crtcs \ Used : ~InUse(i) => board.crtcs[c] = Off
           /\ \A c \in DOMAIN board.crtcs :
                 board.crtcs[c].conn = Connector.id => InUse(i) /\ c = Home(i)
  <1>1. Listed /\ i \in DOMAIN board.connectors
    BY DEF RInv, Restorable, MInv, Apart, Setup
  <1>2. ASSUME InUse(i), NEW k \in DOMAIN modeset_list, modeset_list[k].crtc = Home(i)
        PROVE  FALSE
    <2>1. Fits(modeset_list[k]) /\ board.crtcs[Home(i)].conn = Connector.id /\ Connector.id # None
      BY <1>1, <1>2, Wiring DEF Listed, RInv, Connector, Leaving
    <2>2. modeset_list[k].conn = Connector.id
      BY <1>2, <2>1 DEF Fits, Off
    <2>3. PICK j \in 1 .. i - 1 : modeset_list[k].conn = board.connectors[j].id
      BY <1>1 DEF Listed, Setup, Leaving
    <2>4. j \in DOMAIN board.connectors /\ j # i
      BY <1>1, Wiring DEF RInv
    <2>5. QED
      BY <1>1, <2>2, <2>3, <2>4, Wiring DEF Connector, RInv
  <1>3. ASSUME NEW c \in DOMAIN board.crtcs \ Used, ~InUse(i), board.crtcs[c] # Off PROVE FALSE
    <2>1. PICK j \in DOMAIN board.connectors :
             InUse(j) /\ board.crtcs[c].conn = board.connectors[j].id
      BY <1>3, Wiring DEF RInv
    <2>2. j < i
      <3>1. ~(i \in 1 .. j)
        BY <1>3, <2>1 DEF Calm, UsedFirst, InUse
      <3>2. i \in Nat /\ j \in Nat /\ i > 0
        BY <1>1, Wiring DEF RInv
      <3>3. QED
        BY <3>1, <3>2
    <2>3. PICK k \in DOMAIN modeset_list : modeset_list[k].conn = board.connectors[j].id
      BY <1>1, <2>1, <2>2 DEF Listed, Setup, InUse, Leaving
    <2>4. c = modeset_list[k].crtc
      BY <1>1, <2>1, <2>3 DEF Listed, Fits, Leaving
    <2>5. QED
      BY <2>4 DEF Used
  <1>4. ASSUME NEW c \in DOMAIN board.crtcs, board.crtcs[c].conn = Connector.id
        PROVE  InUse(i) /\ c = Home(i)
    <2>1. Connector.id # None
      BY <1>1, Wiring DEF RInv, Connector
    <2>2. PICK j \in DOMAIN board.connectors :
             InUse(j) /\ Home(j) = c /\ board.crtcs[c].conn = board.connectors[j].id
      BY <1>4, <2>1, Wiring DEF RInv, Off
    <2>3. j = i
      BY <1>1, <1>4, <2>2, Wiring DEF RInv, Connector
    <2>4. QED
      BY <2>2, <2>3
  <1>5. QED
    BY <1>2, <1>3, <1>4 DEF Used

LEMMA FindRestorable ==
    ASSUME RInv, modeset_find_crtc PROVE Restorable'
  <1>1. /\ pc = "crtc" /\ UNCHANGED <<board, kernel, modeset_list>> /\ i \in DOMAIN board.connectors
    BY DEF modeset_find_crtc, RInv, MInv, Apart, Setup
  <1>2. Theirs' = Theirs
    BY <1>1 DEF Theirs
  <1>3. ASSUME Calm' PROVE Listed' /\ Displayed' /\ Remembered'
    <2>1. PICK lost \in BOOLEAN, bad \in SUBSET DOMAIN Connector.encoders :
             LET first == IF lost THEN None ELSE Current
                 cost == Cardinality(bad) + IF lost THEN 1 ELSE 0
                 found == IF first # None THEN first
                          ELSE IF Candidates(bad) # {} THEN First(Candidates(bad))[2] ELSE None
             IN  /\ lost => Connector.encoder # None
                 /\ first # None => bad = {}
                 /\ cost <= faults /\ faults' = faults - cost
                 /\ IF found = None THEN NextConnector
                    ELSE pc' = "dumb" /\ dev' = [dev EXCEPT !.crtc = found] /\ UNCHANGED i
      BY DEF modeset_find_crtc
    <2>2. lost = FALSE /\ bad = {} /\ Calm
      <3>1. faults' = MaxFaults
        BY <1>3 DEF Calm
      <3>2. lost = FALSE /\ bad = {} /\ faults = MaxFaults
        BY <1>1, <2>1, <3>1, Retrievals DEF RInv, MInv
      <3>3. QED
        BY <1>1, <1>3, <3>2 DEF Calm, UsedFirst
    <2> DEFINE found == IF Current # None THEN Current
                        ELSE IF Candidates(bad) # {} THEN First(Candidates(bad))[2] ELSE None
    <2>3. IF found = None THEN NextConnector
          ELSE pc' = "dumb" /\ dev' = [dev EXCEPT !.crtc = found] /\ UNCHANGED i
      BY <2>1, <2>2
    <2>4. /\ InUse(i) => found = Home(i)
          /\ found = None \/ found \in DOMAIN board.crtcs \ Used
      <3>1. CASE InUse(i)
        <4>1. Current = Home(i) /\ Home(i) # None /\ Home(i) \in DOMAIN board.crtcs \ Used
          <5>1. Home(i) # None /\ Home(i) \in DOMAIN board.crtcs \ Used
            BY <1>1, <2>2, <3>1, UsedFits, Wiring DEF RInv
          <5>2. QED
            BY <3>1, <5>1 DEF Current, InUse, Home, Connector
        <4>2. QED
          BY <3>1, <4>1
      <3>2. CASE ~InUse(i)
        <4>1. Current = None
          BY <3>2 DEF Current, InUse, Connector
        <4>2. CASE Candidates(bad) # {}
          <5>1. Candidates(bad) \in SUBSET (Nat \X Nat)
            <6>1. Connector.encoders \in Seq(DOMAIN board.encoders)
              BY <1>1, ConnectorFacts DEF RInv, MInv
            <6>2. DOMAIN Connector.encoders \subseteq Nat
              BY <6>1
            <6>3. DOMAIN board.crtcs \subseteq Nat
              BY BoardFacts DEF RInv, MInv
            <6>4. Candidates(bad) \subseteq (DOMAIN Connector.encoders) \X (DOMAIN board.crtcs)
              BY DEF Candidates
            <6>5. QED
              BY <6>2, <6>3, <6>4
          <5>2. First(Candidates(bad)) \in Candidates(bad)
            BY <4>2, <5>1, FirstIsThere
          <5>3. First(Candidates(bad))[2] \in DOMAIN board.crtcs \ Used
            <6> DEFINE P == Candidates(bad)
            <6>1. \A p \in P : p[2] \in DOMAIN board.crtcs \ Used
              BY DEF Candidates
            <6> HIDE DEF P
            <6>2. QED
              BY <5>2, <6>1 DEF P
          <5>4. QED
            BY <3>2, <4>1, <4>2, <5>3
        <4>3. QED
          BY <3>2, <4>1, <4>2
      <3>3. QED
        BY <3>1, <3>2
    <2> HIDE DEF found
    <2>5. Listed /\ Displayed
      BY <2>2 DEF RInv, Restorable
    <2>6. Displayed' /\ Remembered'
      BY <1>1, <2>3, <2>5, SetupScreens DEF kernel, Setup, NextConnector
    <2>7. CASE found = None
      <3>1. ~InUse(i)
        BY <1>1, <2>4, <2>7, Wiring DEF RInv
      <3>2. QED
        BY <1>1, <2>3, <2>5, <2>6, <2>7, <3>1, NextListed DEF Setup
    <2>8. CASE found # None
      <3>1. /\ pc' = "dumb" /\ UNCHANGED i /\ found \in DOMAIN board.crtcs \ Used
            /\ dev'.crtc = found /\ dev'.conn = Connector.id /\ Connector' = Connector
        BY <1>1, <2>3, <2>4, <2>5, <2>8 DEF Listed, Setup, RInv, MInv, Types, Devs, Connector, Leaving
      <3>2. Fits(dev)'
        <4>1. Connector.id # None
          BY <1>1, Wiring DEF RInv, Connector
        <4>2. board.crtcs[found] = Off \/ board.crtcs[found].conn = Connector.id
          BY <1>1, <2>2, <2>4, <3>1, UsedFits, Wiring DEF RInv, Connector
        <4>3. \A c \in DOMAIN board.crtcs : board.crtcs[c].conn = Connector.id => c = found
          BY <1>1, <2>2, <2>4, UsedFits
        <4>4. QED
          BY <1>1, <3>1, <4>1, <4>2, <4>3 DEF Fits
      <3>3. \A k \in DOMAIN modeset_list : Fits(modeset_list[k])'
        BY <1>1, <2>5 DEF Listed, Fits, Leaving
      <3>4. Listed'
        BY <1>1, <2>5, <3>1, <3>2, <3>3 DEF Listed, Setup, Leaving
      <3>5. QED
        BY <2>6, <3>4
    <2>9. QED
      BY <2>7, <2>8
  <1>4. QED
    BY <1>1, <1>2, <1>3 DEF RInv, Restorable, kernel

LEMMA CreateDumbRestorable ==
    ASSUME RInv, CreateDumb PROVE Restorable'
  <1>1. pc = "dumb" /\ UNCHANGED <<board, crtcs, fbs, maps, modeset_list>>
    BY DEF CreateDumb
  <1>2. Theirs' = Theirs
    BY <1>1 DEF Theirs
  <1>3. ASSUME Calm' PROVE Listed' /\ Displayed' /\ Remembered'
    <2>1. Calm /\ UNCHANGED faults
      BY <1>1, <1>3, FaultFree DEF RInv, CreateDumb, Succeeds
    <2>2. dev' = [dev EXCEPT !.buffer = Fresh] /\ pc' = "addfb" /\ UNCHANGED i
      <3>1. ~Fails
        BY <2>1, BoardFacts DEF Fails, RInv, MInv, Types
      <3>2. QED
        BY <3>1 DEF CreateDumb
    <2>3. dev'.conn = dev.conn /\ dev'.crtc = dev.crtc
      BY <2>2 DEF RInv, MInv, Types, Devs
    <2>4. Listed /\ Displayed
      BY <2>1 DEF RInv, Restorable
    <2>5. Displayed' /\ Remembered'
      BY <1>1, <2>2, <2>4, SetupScreens DEF Setup
    <2>6. Listed'
      <3>1. Fits(dev)' /\ dev'.conn = Connector'.id
        BY <1>1, <2>2, <2>3, <2>4 DEF Listed, Fits, Setup, Connector, Leaving
      <3>2. \A k \in DOMAIN modeset_list : Fits(modeset_list[k])'
        BY <1>1, <2>4 DEF Listed, Fits, Leaving
      <3>3. QED
        BY <1>1, <2>2, <2>4, <3>1, <3>2 DEF Listed, Setup, Leaving
    <2>7. QED
      BY <2>5, <2>6
  <1>4. QED
    BY <1>1, <1>2, <1>3 DEF RInv, Restorable

LEMMA AddFbRestorable ==
    ASSUME RInv, AddFb PROVE Restorable'
  <1>1. /\ pc = "addfb" /\ UNCHANGED <<board, crtcs, dumbs, maps, modeset_list, dev, i>>
        /\ fbs' \in {fbs, fbs \cup {dev.buffer}}
    BY DEF AddFb
  <1>2. Theirs' = Theirs
    BY <1>1 DEF Theirs
  <1>3. dev.buffer # None
    BY <1>1, FreshIsFree DEF RInv, MInv, Apart, Built, Setup
  <1>4. ASSUME Calm' PROVE Listed' /\ Displayed' /\ Remembered'
    <2>1. Calm /\ UNCHANGED faults
      BY <1>1, <1>4, FaultFree DEF RInv, AddFb, Succeeds
    <2>2. pc' = "map"
      <3>1. ~Fails
        BY <2>1, BoardFacts DEF Fails, RInv, MInv, Types
      <3>2. QED
        BY <3>1 DEF AddFb
    <2>3. Listed /\ Displayed
      BY <2>1 DEF RInv, Restorable
    <2>4. Displayed' /\ Remembered'
      BY <1>1, <2>2, <2>3, SetupScreens DEF Setup
    <2>5. Listed'
      BY <1>1, <2>2, <2>3 DEF Listed, Fits, Setup, Connector, Leaving
    <2>6. QED
      BY <2>4, <2>5
  <1>5. QED
    BY <1>1, <1>2, <1>3, <1>4 DEF RInv, Restorable

LEMMA MapRestorable ==
    ASSUME RInv, Map PROVE Restorable'
  <1>1. /\ pc = "map" /\ UNCHANGED <<board, crtcs, fbs, dumbs>>
        /\ i \in DOMAIN board.connectors
    BY DEF Map, RInv, MInv, Apart, Setup
  <1>2. Theirs' = Theirs
    BY <1>1 DEF Theirs
  <1>3. ASSUME Calm' PROVE Listed' /\ Displayed' /\ Remembered'
    <2>1. Calm /\ UNCHANGED faults
      BY <1>1, <1>3, FaultFree DEF RInv, Map, Succeeds
    <2>2. modeset_list' = <<dev>> \o modeset_list /\ pc' = "connector" /\ i' = i + 1 /\ dev' = NoDev
      <3>1. ~Fails
        BY <2>1, BoardFacts DEF Fails, RInv, MInv, Types
      <3>2. QED
        BY <3>1 DEF Map, NextConnector
    <2>3. Listed /\ Displayed /\ Fits(dev) /\ dev.conn = Connector.id
      BY <1>1, <2>1 DEF RInv, Restorable, Listed, Setup, Leaving
    <2>4. Displayed' /\ Remembered'
      BY <1>1, <2>2, <2>3, SetupScreens DEF Setup
    <2> DEFINE t == modeset_list'
    <2>5. modeset_list \in Seq(Devs) /\ dev \in Devs
      BY DEF RInv, MInv, Types
    <2>6. /\ 1 \in DOMAIN t /\ t[1] = dev
          /\ \A k \in DOMAIN t : k # 1 => k - 1 \in DOMAIN modeset_list /\ t[k] = modeset_list[k - 1]
          /\ \A k \in DOMAIN modeset_list : k + 1 \in DOMAIN t /\ t[k + 1] = modeset_list[k]
          /\ DOMAIN t \subseteq Nat
      BY <2>2, <2>5, Joins
    <2> HIDE DEF t
    <2>7. \A k \in DOMAIN modeset_list : modeset_list[k].conn # dev.conn
      <3>1. ASSUME NEW k \in DOMAIN modeset_list, modeset_list[k].conn = dev.conn PROVE FALSE
        <4>1. PICK j \in 1 .. i - 1 : modeset_list[k].conn = board.connectors[j].id
          BY <1>1, <2>3 DEF Listed, Setup, Leaving
        <4>2. j \in DOMAIN board.connectors /\ j # i
          BY <1>1, Wiring DEF RInv
        <4>3. QED
          BY <1>1, <2>3, <3>1, <4>1, <4>2, Wiring DEF Connector, RInv
      <3>2. QED
        BY <3>1
    <2>8. \A k \in DOMAIN t : Fits(t[k])
      BY <2>3, <2>6 DEF Listed, Leaving
    <2>9. \A k, l \in DOMAIN t : k # l => t[k].conn # t[l].conn
      <3>1. ASSUME NEW k \in DOMAIN t, NEW l \in DOMAIN t, k # l, k # 1, l # 1
            PROVE  t[k].conn # t[l].conn
        <4>1. k - 1 # l - 1
          BY <2>6, <3>1
        <4>2. QED
          BY <2>3, <2>6, <3>1, <4>1 DEF Listed, Leaving
      <3>2. QED
        BY <2>6, <2>7, <3>1
    <2>10. \A k \in DOMAIN t : \E j \in 1 .. i' - 1 : t[k].conn = board.connectors[j].id
      <3>1. i \in 1 .. i' - 1 /\ 1 .. i - 1 \subseteq 1 .. i' - 1
        BY <1>1, <2>2, Wiring DEF RInv
      <3>2. dev.conn = board.connectors[i].id
        BY <2>3 DEF Connector
      <3>3. \A k \in DOMAIN modeset_list : \E j \in 1 .. i - 1 :
               modeset_list[k].conn = board.connectors[j].id
        BY <1>1, <2>3 DEF Listed, Setup, Leaving
      <3>4. QED
        BY <2>6, <3>1, <3>2, <3>3
    <2>11. \A j \in DOMAIN board.connectors : j < i' /\ board.connectors[j].encoder # None =>
              \E k \in DOMAIN t : t[k].conn = board.connectors[j].id
      <3>1. SUFFICES ASSUME NEW j \in DOMAIN board.connectors, j < i', board.connectors[j].encoder # None
                     PROVE  \E k \in DOMAIN t : t[k].conn = board.connectors[j].id
        OBVIOUS
      <3>2. j < i \/ j = i
        BY <1>1, <2>2, <3>1, Wiring DEF RInv
      <3>3. CASE j = i
        BY <2>3, <2>6, <3>3 DEF Connector
      <3>4. CASE j < i
        <4>1. PICK k \in DOMAIN modeset_list : modeset_list[k].conn = board.connectors[j].id
          BY <1>1, <2>3, <3>1, <3>4 DEF Listed, Setup, Leaving
        <4>2. QED
          BY <2>6, <4>1
      <3>5. QED
        BY <3>2, <3>3, <3>4
    <2>12. Listed'
      <3>1. \A k \in DOMAIN modeset_list' : Fits(modeset_list[k])'
        BY <1>1, <2>8 DEF t, Fits
      <3>2. QED
        BY <1>1, <2>2, <2>9, <2>10, <2>11, <3>1 DEF t, Listed, Setup, Leaving
    <2>13. QED
      BY <2>4, <2>12
  <1>4. QED
    BY <1>1, <1>2, <1>3 DEF RInv, Restorable

LEMMA ErrFbRestorable ==
    ASSUME RInv, ErrFb PROVE Restorable'
  <1>1. pc = "err_fb" /\ UNCHANGED board
    BY DEF ErrFb
  <1>2. Theirs' = Theirs /\ dev.buffer \notin Theirs
    BY <1>1, FreshIsFree DEF Theirs, RInv, MInv, Apart, Built, Setup
  <1>3. /\ Released(fbs, fbs', dev.buffer, failed'.fb)
        /\ Succeeds \/ Fails
    BY DevNumber, Shows, RmFbKeeps DEF RInv, ErrFb
  <1>4. ~Calm'
    BY <1>1, <1>3, FaultFree DEF RInv, Restorable, Listed, Succeeds, Leaving
  <1>5. QED
    BY <1>1, <1>2, <1>3, <1>4 DEF RInv, Restorable, Released

LEMMA ErrDestroyRestorable ==
    ASSUME RInv, ErrDestroy PROVE Restorable'
  <1>1. pc = "err_destroy" /\ UNCHANGED <<board, fbs>>
    BY DEF ErrDestroy
  <1>2. Theirs' = Theirs
    BY <1>1 DEF Theirs
  <1>3. Succeeds \/ Fails
    BY DEF ErrDestroy, DestroyDumb
  <1>4. ~Calm'
    BY <1>1, <1>3, FaultFree DEF RInv, Restorable, Listed, Succeeds, Leaving
  <1>5. QED
    BY <1>1, <1>2, <1>4 DEF RInv, Restorable

LEMMA PreparedRestorable ==
    ASSUME RInv, Prepared PROVE Restorable'
  <1>1. /\ pc = "connector" /\ pc' = "save" /\ i' = 1
        /\ UNCHANGED <<board, kernel, modeset_list, dev, faults>>
    BY DEF Prepared
  <1>2. Theirs' = Theirs
    BY <1>1 DEF Theirs
  <1>3. ASSUME Calm' PROVE Listed' /\ Displayed' /\ Remembered'
    <2>1. Listed /\ Displayed
      BY <1>1, <1>3, FaultFree DEF RInv, Restorable
    <2>2. OnScreen = {} /\ OnScreen' = {} /\ Known' = {}
      <3>1. \A k \in DOMAIN modeset_list : ~(k < 1)
        BY DEF RInv, MInv, Types
      <3>2. QED
        BY <1>1, <3>1 DEF OnScreen, Known, Setup
    <2>3. Displayed' /\ Remembered'
      BY <1>1, <2>1, <2>2 DEF Displayed, Remembered, kernel, Leaving
    <2>4. Listed'
      BY <1>1, <2>1 DEF Listed, Fits, Setup, Leaving
    <2>5. QED
      BY <2>3, <2>4
  <1>4. QED
    BY <1>1, <1>2, <1>3 DEF RInv, Restorable, kernel

\* A device's CRTC shows what it showed before until the device is shown.
LEMMA SaveRestorable ==
    ASSUME RInv, SaveCrtc PROVE Restorable'
  <1>1. /\ pc = "save" /\ pc' = "show" /\ i \in DOMAIN modeset_list
        /\ UNCHANGED <<board, kernel, dev, i>>
    BY DEF SaveCrtc, RInv, MInv, Types
  <1>2. Theirs' = Theirs
    BY <1>1 DEF Theirs
  <1>3. ASSUME Calm' PROVE Listed' /\ Displayed' /\ Remembered'
    <2>1. Calm /\ UNCHANGED faults
      BY <1>1, <1>3, FaultFree DEF RInv, SaveCrtc, Succeeds
    <2> DEFINE v == [known |-> TRUE, fb |-> crtcs[Device.crtc].fb]
    <2>2. modeset_list' = [modeset_list EXCEPT ![i].saved = v]
      <3>1. ~Fails
        BY <2>1, BoardFacts DEF Fails, RInv, MInv, Types
      <3>2. QED
        BY <3>1 DEF SaveCrtc
    <2>3. Listed /\ Displayed /\ Remembered
      BY <2>1 DEF RInv, Restorable
    <2>4. v \in Saves
      <3>1. crtcs[Device.crtc].fb \in Nat
        BY <1>1 DEF RInv, MInv, Types, Apart, Device
      <3>2. QED
        BY <3>1 DEF Saves
    <2>5. v = [known |-> TRUE, fb |-> board.crtcs[Device.crtc].fb]
      <3>1. /\ Device = modeset_list[i] /\ Device.crtc \in DOMAIN board.crtcs
            /\ \A k \in OnScreen : modeset_list[k].crtc # Device.crtc
        <4>1. i \notin OnScreen /\ OnScreen \subseteq DOMAIN modeset_list
          BY <1>1 DEF OnScreen, Setup, RInv, MInv, Types
        <4>2. QED
          BY <1>1, <4>1 DEF Device, RInv, MInv, Apart
      <3>2. crtcs[Device.crtc] = board.crtcs[Device.crtc]
        BY <1>1, <2>3, <3>1 DEF Displayed, Leaving
      <3>3. QED
        BY <3>2
    <2> DEFINE t == modeset_list'
    <2>6. /\ DOMAIN t = DOMAIN modeset_list
          /\ \A k \in DOMAIN modeset_list :
                /\ t[k].conn = modeset_list[k].conn /\ t[k].crtc = modeset_list[k].crtc
                /\ t[k].buffer = modeset_list[k].buffer
                /\ t[k].saved = IF k = i THEN v ELSE modeset_list[k].saved
      <3> HIDE DEF v
      <3>1. modeset_list \in Seq(Devs)
        BY DEF RInv, MInv, Types
      <3>2. QED
        BY <1>1, <2>2, <2>4, <3>1, Saving
    <2> HIDE DEF t, v
    <2>7. OnScreen' = OnScreen /\ Known' = OnScreen \cup {i} /\ Known = OnScreen
          /\ OnScreen \subseteq DOMAIN modeset_list
      BY <1>1, <2>6 DEF OnScreen, Known, Setup, t
    <2>8. Listed'
      <3>1. \A k \in DOMAIN modeset_list : Fits(modeset_list[k])' <=> Fits(modeset_list[k])
        BY <1>1, <2>6 DEF t, Fits
      <3>2. QED
        BY <1>1, <2>3, <2>6, <3>1 DEF Listed, Setup, t, Leaving
    <2>9. Displayed'
      <3>1. \A k \in DOMAIN t : Picture(t[k]) = Picture(modeset_list[k]) /\ t[k].crtc = modeset_list[k].crtc
        BY <2>6 DEF Picture
      <3>2. QED
        BY <1>1, <2>3, <2>6, <2>7, <3>1 DEF Displayed, t, kernel, Leaving
    <2>10. Remembered'
      <3>1. ASSUME NEW k \in OnScreen \cup {i}
            PROVE  t[k].saved = [known |-> TRUE, fb |-> board.crtcs[t[k].crtc].fb]
        <4>1. CASE k = i
          BY <1>1, <2>5, <2>6, <4>1 DEF Device
        <4>2. CASE k # i
          BY <2>3, <2>6, <2>7, <3>1, <4>2 DEF Remembered
        <4>3. QED
          BY <4>1, <4>2
      <3>2. QED
        BY <1>1, <2>7, <3>1 DEF Remembered, t
    <2>11. QED
      BY <2>8, <2>9, <2>10
  <1>4. QED
    BY <1>1, <1>2, <1>3 DEF RInv, Restorable, kernel

\* What a CRTC shows and drives after SetCrtc, when no other drives the connector.
LEMMA SetsOne ==
    ASSUME crtcs \in [DOMAIN board.crtcs -> [fb : Nat, conn : Nat]],
           NEW c \in DOMAIN board.crtcs, NEW fb \in fbs, NEW conn, SetCrtc(c, fb, conn),
           \A d \in DOMAIN board.crtcs : d # c => crtcs[d].conn # conn
    PROVE  /\ crtcs'[c] = [fb |-> fb, conn |-> conn]
           /\ \A d \in DOMAIN board.crtcs : d # c => crtcs'[d] = crtcs[d]
  BY DEF SetCrtc

\* No CRTC but its own drives the connector of a device.
LEMMA Alone ==
    ASSUME RInv, Calm, pc \notin Leaving, NEW k \in DOMAIN modeset_list,
           NEW d \in DOMAIN board.crtcs, d # modeset_list[k].crtc
    PROVE  crtcs[d].conn # modeset_list[k].conn
  <1>1. /\ Displayed /\ Fits(modeset_list[k])
        /\ \A l \in DOMAIN modeset_list : l # k => modeset_list[l].conn # modeset_list[k].conn
    BY DEF RInv, Restorable, Listed, Leaving
  <1>2. OnScreen \subseteq DOMAIN modeset_list
    BY DEF OnScreen
  <1>3. CASE \E l \in OnScreen : modeset_list[l].crtc = d /\ crtcs[d] = Picture(modeset_list[l])
    <2>1. PICK l \in OnScreen : modeset_list[l].crtc = d /\ crtcs[d] = Picture(modeset_list[l])
      BY <1>3
    <2>2. crtcs[d].conn = modeset_list[l].conn /\ l # k
      BY <2>1 DEF Picture
    <2>3. QED
      BY <1>1, <1>2, <2>2
  <1>4. CASE crtcs[d] = board.crtcs[d]
    BY <1>1, <1>4 DEF Fits
  <1>5. QED
    BY <1>1, <1>3, <1>4 DEF Displayed, Leaving

LEMMA ShowRestorable ==
    ASSUME RInv, Show PROVE Restorable'
  <1>1. /\ pc = "show" /\ pc' = "save" /\ i' = i + 1 /\ i \in DOMAIN modeset_list
        /\ UNCHANGED <<board, fbs, dumbs, maps, modeset_list, dev>>
    BY DEF Show, RInv, MInv, Apart
  <1>2. Theirs' = Theirs
    BY <1>1 DEF Theirs
  <1>3. ASSUME Calm' PROVE Listed' /\ Displayed' /\ Remembered'
    <2>1. Calm /\ UNCHANGED faults
      BY <1>1, <1>3, FaultFree DEF RInv, Show, Succeeds
    <2>2. SetCrtc(Device.crtc, Device.buffer, Device.conn)
      <3>1. ~Fails
        BY <2>1, BoardFacts DEF Fails, RInv, MInv, Types
      <3>2. QED
        BY <3>1 DEF Show
    <2>3. Listed /\ Displayed /\ Remembered
      BY <2>1 DEF RInv, Restorable
    <2>4. /\ Device.crtc \in DOMAIN board.crtcs /\ Device.buffer \in fbs
          /\ Device = modeset_list[i] /\ Fits(Device)
      BY <1>1, <2>3 DEF RInv, MInv, Apart, Accounted, Owned, Device, Listed, Leaving
    <2>5. OnScreen \subseteq DOMAIN modeset_list /\ i \notin OnScreen /\ OnScreen' = OnScreen \cup {i}
          /\ Known = OnScreen \cup {i} /\ Known' = OnScreen \cup {i}
      <3>1. DOMAIN modeset_list \subseteq Nat /\ i \in Nat
        BY DEF RInv, MInv, Types
      <3>2. \A k \in DOMAIN modeset_list : k < i + 1 <=> (k < i \/ k = i)
        BY <3>1
      <3>3. ~(i < i)
        BY <3>1
      <3>4. OnScreen = {k \in DOMAIN modeset_list : k < i}
        BY <1>1 DEF OnScreen, Setup
      <3>5. OnScreen' = {k \in DOMAIN modeset_list : k < i + 1}
        BY <1>1 DEF OnScreen, Setup
      <3>6. OnScreen' = OnScreen \cup {i}
        BY <1>1, <3>2, <3>4, <3>5
      <3>7. QED
        BY <1>1, <3>3, <3>4, <3>6 DEF Known
    <2>6. \A d \in DOMAIN board.crtcs : d # Device.crtc => crtcs[d].conn # Device.conn
      BY <1>1, <2>1, <2>4, Alone DEF Leaving
    <2>7. /\ crtcs'[Device.crtc] = Picture(Device)
          /\ \A d \in DOMAIN board.crtcs : d # Device.crtc => crtcs'[d] = crtcs[d]
      <3>1. crtcs \in [DOMAIN board.crtcs -> [fb : Nat, conn : Nat]]
        BY DEF RInv, MInv, Types
      <3>2. QED
        BY <2>2, <2>4, <2>6, <3>1, SetsOne DEF Picture
    <2>8. Displayed'
      <3>1. ASSUME NEW c \in DOMAIN board.crtcs
            PROVE  \/ \E k \in OnScreen \cup {i} :
                         modeset_list[k].crtc = c /\ crtcs'[c] = Picture(modeset_list[k])
                   \/ /\ \A k \in OnScreen \cup {i} : modeset_list[k].crtc # c
                      /\ crtcs'[c] = board.crtcs[c]
        <4>1. CASE c = Device.crtc
          BY <2>4, <2>7, <4>1
        <4>2. CASE c # Device.crtc
          BY <1>1, <2>3, <2>4, <2>7, <4>2 DEF Displayed, Leaving
        <4>3. QED
          BY <4>1, <4>2
      <3>2. QED
        BY <1>1, <2>5, <3>1 DEF Displayed, Picture, Leaving
    <2>9. Remembered'
      BY <1>1, <2>3, <2>5 DEF Remembered
    <2>10. Listed'
      BY <1>1, <2>3 DEF Listed, Fits, Setup, Leaving
    <2>11. QED
      BY <2>8, <2>9, <2>10
  <1>4. QED
    BY <1>1, <1>2, <1>3 DEF RInv, Restorable

LEMMA DrawRestorable ==
    ASSUME RInv, modeset_draw PROVE Restorable'
  <1>1. /\ pc = "save" /\ pc' \in {"crashed", "restore"} /\ i > Len(modeset_list)
        /\ UNCHANGED <<board, kernel, modeset_list, dev, faults>>
    BY DEF modeset_draw
  <1>2. Theirs' = Theirs
    BY <1>1 DEF Theirs
  <1>3. ASSUME Calm' PROVE Listed' /\ Displayed' /\ Remembered'
    <2>1. Listed /\ Displayed /\ Remembered
      BY <1>1, <1>3, FaultFree DEF RInv, Restorable
    <2>2. OnScreen' = OnScreen /\ Known' = Known
      <3>1. \A k \in DOMAIN modeset_list : k < i
        BY <1>1 DEF RInv, MInv, Types
      <3>2. OnScreen = DOMAIN modeset_list /\ OnScreen' = DOMAIN modeset_list
        BY <1>1, <3>1 DEF OnScreen, Setup
      <3>3. QED
        BY <1>1, <3>2 DEF Known
    <2>3. Displayed' /\ Remembered'
      BY <1>1, <2>1, <2>2 DEF Displayed, Remembered, kernel, Picture, Leaving
    <2>4. Listed'
      BY <1>1, <2>1 DEF Listed, Fits, Setup, Leaving
    <2>5. QED
      BY <2>3, <2>4
  <1>4. QED
    BY <1>1, <1>2, <1>3 DEF RInv, Restorable, kernel

\* The head of the list gets back what its CRTC showed; one that showed nothing
\* is left on and goes off with its framebuffer, in the next step.
LEMMA RestoreRestorable ==
    ASSUME RInv, Restore PROVE Restorable'
  <1>1. pc = "restore" /\ modeset_list # <<>> /\ UNCHANGED <<board, fbs, dumbs, maps, i>>
    BY DEF Restore
  <1>2. Theirs' = Theirs
    BY <1>1 DEF Theirs
  <1> DEFINE head == Head(modeset_list)
             t == Tail(modeset_list)
  <1>3. modeset_list \in Seq(Devs)
    BY DEF RInv, MInv, Types
  <1>4. /\ head = modeset_list[1] /\ 1 \in DOMAIN modeset_list /\ head \in Devs
        /\ \A k \in DOMAIN t : k + 1 \in DOMAIN modeset_list /\ t[k] = modeset_list[k + 1] /\ k + 1 # 1
        /\ \A k \in DOMAIN modeset_list : k # 1 => k - 1 \in DOMAIN t /\ t[k - 1] = modeset_list[k]
        /\ DOMAIN t \subseteq Nat
    <2>1. Tail(modeset_list) \in Seq(Devs)
      BY <1>1, <1>3, Leaves
    <2>2. DOMAIN t \subseteq Nat
      BY <2>1
    <2>3. QED
      BY <1>1, <1>3, <2>2, Leaves
  <1>5. ASSUME Calm' PROVE Listed' /\ Displayed' /\ Remembered'
    <2>1. Calm /\ UNCHANGED faults
      BY <1>1, <1>5, FaultFree DEF RInv, Restore, Succeeds
    <2>2. Listed /\ Displayed /\ Remembered
      BY <2>1 DEF RInv, Restorable
    <2>3. OnScreen = DOMAIN modeset_list /\ Known = DOMAIN modeset_list
      BY <1>1 DEF OnScreen, Known, Setup
    <2>4. /\ head.saved = [known |-> TRUE, fb |-> board.crtcs[head.crtc].fb]
          /\ Fits(head) /\ head.crtc \in DOMAIN board.crtcs
      BY <1>4, <2>2, <2>3 DEF Remembered, Listed, RInv, MInv, Apart, Leaving
    <2>5. /\ SetCrtc(head.crtc, board.crtcs[head.crtc].fb, head.conn)
          /\ dev' = head /\ modeset_list' = t /\ pc' = "unmap"
      <3>1. head.saved.known = TRUE /\ head.saved.fb = board.crtcs[head.crtc].fb
        BY <2>4
      <3>2. ~Fails
        BY <2>1, BoardFacts DEF Fails, RInv, MInv, Types
      <3>3. QED
        BY <3>1, <3>2 DEF Restore
    <2> HIDE DEF head, t
    <2>6. /\ \A k, l \in DOMAIN t : k # l => t[k].conn # t[l].conn
          /\ \A k \in DOMAIN t : /\ Fits(t[k]) /\ t[k].crtc # head.crtc /\ t[k].conn # head.conn
                                 /\ t[k].saved = [known |-> TRUE, fb |-> board.crtcs[t[k].crtc].fb]
      <3>1. ASSUME NEW k \in DOMAIN t, NEW l \in DOMAIN t, k # l PROVE t[k].conn # t[l].conn
        <4>1. k + 1 # l + 1
          BY <1>4, <3>1
        <4>2. QED
          BY <1>4, <2>2, <4>1 DEF Listed, Leaving
      <3>2. ASSUME NEW k \in DOMAIN t
            PROVE  /\ Fits(t[k]) /\ t[k].crtc # head.crtc /\ t[k].conn # head.conn
                   /\ t[k].saved = [known |-> TRUE, fb |-> board.crtcs[t[k].crtc].fb]
        <4>1. t[k] = modeset_list[k + 1] /\ k + 1 \in DOMAIN modeset_list /\ k + 1 # 1
          BY <1>4
        <4>2. t[k].crtc # head.crtc
          BY <1>4, <4>1 DEF RInv, MInv, Apart
        <4>3. Fits(t[k]) /\ t[k].conn # head.conn
          BY <1>4, <2>2, <4>1 DEF Listed, Leaving
        <4>4. QED
          BY <2>2, <2>3, <4>1, <4>2, <4>3 DEF Remembered
      <3>3. QED
        BY <3>1, <3>2
    <2>7. OnScreen' = DOMAIN t /\ Known' = DOMAIN t
      BY <2>5 DEF OnScreen, Known, Setup
    <2>8. Remembered'
      BY <1>1, <2>5, <2>6, <2>7 DEF Remembered
    <2>9. Listed'
      <3>1. Fits(dev)' /\ \A k \in DOMAIN t : Fits(modeset_list[k])'
        BY <1>1, <2>4, <2>5, <2>6 DEF Fits
      <3>2. head.crtc \notin Used'
        BY <2>5, <2>6 DEF Used
      <3>3. QED
        BY <1>1, <2>4, <2>5, <2>6, <3>1, <3>2 DEF Listed, Setup, Leaving
    <2>10. /\ \A c \in DOMAIN board.crtcs : c # head.crtc => crtcs'[c] = crtcs[c]
           /\ \/ crtcs'[head.crtc] = board.crtcs[head.crtc]
              \/ board.crtcs[head.crtc] = Off /\ crtcs'[head.crtc] = crtcs[head.crtc]
      <3>1. crtcs \in [DOMAIN board.crtcs -> [fb : Nat, conn : Nat]]
        BY DEF RInv, MInv, Types
      <3>2. CASE board.crtcs[head.crtc] = Off
        <4>1. board.crtcs[head.crtc].fb \notin fbs
          BY <3>2, OffTyped DEF RInv, Restorable
        <4>2. QED
          BY <2>5, <3>2, <4>1 DEF SetCrtc
      <3>3. CASE board.crtcs[head.crtc] # Off
        <4>1. board.crtcs[head.crtc].fb # None
          BY <2>4, <3>3, Wiring DEF RInv
        <4>2. board.crtcs[head.crtc].fb \in fbs
          BY <2>4, <4>1 DEF RInv, Restorable, Theirs
        <4>3. \A d \in DOMAIN board.crtcs : d # head.crtc => crtcs[d].conn # head.conn
          BY <1>1, <1>4, <2>1, Alone DEF Leaving
        <4>4. /\ crtcs'[head.crtc] = [fb |-> board.crtcs[head.crtc].fb, conn |-> head.conn]
              /\ \A d \in DOMAIN board.crtcs : d # head.crtc => crtcs'[d] = crtcs[d]
          BY <2>4, <2>5, <3>1, <4>2, <4>3, SetsOne
        <4>5. board.crtcs[head.crtc] = [fb |-> board.crtcs[head.crtc].fb, conn |-> head.conn]
          <5>1. board.crtcs[head.crtc].conn = head.conn
            BY <2>4, <3>3 DEF Fits
          <5>2. board.crtcs \in [DOMAIN board.crtcs -> [fb : 0 .. 100, conn : Nat]]
            BY ModesetAssumption DEF BoardOK, RInv, MInv, Types
          <5>3. QED
            BY <2>4, <5>1, <5>2
        <4>6. QED
          BY <4>4, <4>5
      <3>4. QED
        BY <3>2, <3>3
    <2>11. Displayed'
      <3>1. ASSUME NEW c \in DOMAIN board.crtcs
            PROVE  \/ \E k \in DOMAIN t : t[k].crtc = c /\ crtcs'[c] = Picture(t[k])
                   \/ (\A k \in DOMAIN t : t[k].crtc # c) /\ crtcs'[c] = board.crtcs[c]
                   \/ c = head.crtc /\ board.crtcs[c] = Off /\ crtcs'[c] = Picture(head)
        <4>1. CASE c = head.crtc
          <5>1. \A k \in DOMAIN modeset_list : modeset_list[k].crtc = c => k = 1
            BY <1>4, <4>1 DEF RInv, MInv, Apart
          <5>2. crtcs[c] = Picture(head)
            BY <1>1, <1>4, <2>2, <2>3, <4>1, <5>1 DEF Displayed, Leaving
          <5>3. QED
            BY <2>6, <2>10, <4>1, <5>2
        <4>2. CASE c # head.crtc
          <5>1. CASE \E k \in DOMAIN modeset_list :
                        modeset_list[k].crtc = c /\ crtcs[c] = Picture(modeset_list[k])
            <6>1. PICK k \in DOMAIN modeset_list :
                        modeset_list[k].crtc = c /\ crtcs[c] = Picture(modeset_list[k])
              BY <5>1
            <6>2. k # 1
              BY <1>4, <4>2, <6>1
            <6>3. k - 1 \in DOMAIN t /\ t[k - 1] = modeset_list[k]
              BY <1>4, <6>2
            <6>4. QED
              BY <2>10, <4>2, <6>1, <6>3
          <5>2. CASE (\A k \in DOMAIN modeset_list : modeset_list[k].crtc # c) /\ crtcs[c] = board.crtcs[c]
            BY <1>4, <2>10, <4>2, <5>2
          <5>3. QED
            BY <1>1, <2>2, <2>3, <5>1, <5>2 DEF Displayed, Leaving
        <4>3. QED
          BY <4>1, <4>2
      <3>2. QED
        BY <1>1, <2>5, <2>7, <3>1 DEF Displayed, Picture, Leaving
    <2>12. QED
      BY <2>8, <2>9, <2>11
  <1>6. QED
    BY <1>1, <1>2, <1>5 DEF RInv, Restorable

LEMMA UnmapRestorable ==
    ASSUME RInv, Unmap PROVE Restorable'
  <1>1. /\ pc = "unmap" /\ pc' = "rmfb"
        /\ UNCHANGED <<board, crtcs, fbs, dumbs, modeset_list, dev, i>>
    BY DEF Unmap
  <1>2. OnScreen' = OnScreen /\ Known' = Known /\ Theirs' = Theirs /\ Used' = Used
    BY <1>1 DEF OnScreen, Known, Theirs, Setup, Used
  <1>3. Displayed => Displayed'
    BY <1>1, <1>2 DEF Displayed, Picture, Leaving
  <1>4. Remembered => Remembered'
    BY <1>1, <1>2 DEF Remembered
  <1>5. Listed => Listed'
    BY <1>1, <1>2 DEF Listed, Fits, Setup, Leaving
  <1>6. Succeeds \/ Fails
    BY DEF Unmap, munmap
  <1>7. QED
    BY <1>1, <1>2, <1>3, <1>4, <1>5, <1>6, FaultFree DEF RInv, Restorable, Succeeds

LEMMA FreeFbRestorable ==
    ASSUME RInv, FreeFb PROVE Restorable'
  <1>1. /\ pc = "rmfb" /\ pc' = "destroy" /\ drmModeRmFB(dev.buffer)
        /\ UNCHANGED <<board, modeset_list, i>>
    BY DEF FreeFb
  <1>2. Theirs' = Theirs
    BY <1>1 DEF Theirs
  <1>3. /\ dev.buffer \notin Theirs
        /\ Succeeds \/ Fails
        /\ Released(fbs, fbs', dev.buffer, failed'.fb)
    <2>1. dev.buffer > 100 /\ dev.buffer \in Nat
      BY <1>1 DEF RInv, MInv, Types, Apart, Devs, Freeing
    <2>2. dev.buffer \notin 0 .. 100
      BY <2>1
    <2>3. QED
      BY <1>1, <2>2, BoardFacts, DevNumber, Shows, RmFbKeeps DEF RInv, MInv
  <1>4. ASSUME Calm' PROVE Listed' /\ Displayed' /\ Remembered'
    <2>1. Calm /\ UNCHANGED faults
      BY <1>1, <1>3, <1>4, FaultFree DEF RInv, Succeeds
    <2>2. Listed /\ Displayed /\ Remembered
      BY <2>1 DEF RInv, Restorable
    <2>3. /\ OnScreen = DOMAIN modeset_list /\ OnScreen' = DOMAIN modeset_list
          /\ Known = DOMAIN modeset_list /\ Known' = DOMAIN modeset_list
      BY <1>1 DEF OnScreen, Known, Setup
    <2>4. Listed' /\ Remembered'
      BY <1>1, <2>2, <2>3 DEF Listed, Fits, Setup, Leaving, Remembered
    <2>5. Displayed'
      <3>1. ASSUME NEW c \in DOMAIN board.crtcs
            PROVE  \/ \E k \in DOMAIN modeset_list :
                         modeset_list[k].crtc = c /\ crtcs'[c] = Picture(modeset_list[k])
                   \/ (\A k \in DOMAIN modeset_list : modeset_list[k].crtc # c) /\ crtcs'[c] = board.crtcs[c]
        <4>1. crtcs'[c] = IF crtcs[c].fb = dev.buffer THEN Off ELSE crtcs[c]
          <5>1. ~Fails
            BY <2>1, BoardFacts DEF Fails, RInv, MInv, Types
          <5>2. QED
            BY <1>1, <5>1 DEF drmModeRmFB, RInv, MInv, Types
        <4>2. CASE \E k \in DOMAIN modeset_list :
                      modeset_list[k].crtc = c /\ crtcs[c] = Picture(modeset_list[k])
          <5>1. PICK k \in DOMAIN modeset_list :
                      modeset_list[k].crtc = c /\ crtcs[c] = Picture(modeset_list[k])
            BY <4>2
          <5>2. crtcs[c].fb = modeset_list[k].buffer /\ modeset_list[k].buffer # dev.buffer
            BY <1>1, <5>1 DEF Picture, RInv, MInv, Apart, Owned, Freeing
          <5>3. QED
            BY <4>1, <5>1, <5>2
        <4>3. CASE (\A k \in DOMAIN modeset_list : modeset_list[k].crtc # c) /\ crtcs[c] = board.crtcs[c]
          <5>1. crtcs[c].fb # dev.buffer
            BY <1>3, <4>3 DEF Theirs
          <5>2. QED
            BY <4>1, <4>3, <5>1
        <4>4. CASE c = dev.crtc /\ board.crtcs[c] = Off /\ crtcs[c] = Picture(dev)
          <5>1. crtcs'[c] = Off
            BY <4>1, <4>4 DEF Picture
          <5>2. \A k \in DOMAIN modeset_list : modeset_list[k].crtc # c
            BY <1>1, <2>2, <4>4 DEF Listed, Leaving, Used
          <5>3. QED
            BY <4>4, <5>1, <5>2
        <4>5. QED
          BY <2>2, <2>3, <4>2, <4>3, <4>4 DEF Displayed, Leaving
      <3>2. QED
        BY <1>1, <2>3, <3>1 DEF Displayed, Picture, Leaving
    <2>6. QED
      BY <2>4, <2>5
  <1>5. QED
    BY <1>1, <1>2, <1>3, <1>4 DEF RInv, Restorable, Released

LEMMA FreeDumbRestorable ==
    ASSUME RInv, FreeDumb PROVE Restorable'
  <1>1. /\ pc = "destroy" /\ pc' = "restore"
        /\ UNCHANGED <<board, crtcs, fbs, maps, modeset_list, i>>
    BY DEF FreeDumb
  <1>2. OnScreen' = OnScreen /\ Known' = Known /\ Theirs' = Theirs
    BY <1>1 DEF OnScreen, Known, Theirs, Setup
  <1>3. Displayed => Displayed'
    BY <1>1, <1>2 DEF Displayed, Picture, Leaving
  <1>4. Remembered => Remembered'
    BY <1>1, <1>2 DEF Remembered
  <1>5. Listed => Listed'
    BY <1>1 DEF Listed, Fits, Setup, Leaving
  <1>6. Succeeds \/ Fails
    BY DEF FreeDumb, DestroyDumb
  <1>7. QED
    BY <1>1, <1>2, <1>3, <1>4, <1>5, <1>6, FaultFree DEF RInv, Restorable, Succeeds

LEMMA ExitRestorable ==
    ASSUME RInv, Exit PROVE Restorable'
  <1>1. /\ pc = "restore" /\ pc' = "exit"
        /\ UNCHANGED <<board, kernel, modeset_list, dev, i, faults>>
    BY DEF Exit
  <1>2. OnScreen' = OnScreen /\ Known' = Known /\ Theirs' = Theirs
    BY <1>1 DEF OnScreen, Known, Theirs, Setup
  <1>3. Displayed => Displayed'
    BY <1>1, <1>2 DEF Displayed, Picture, kernel, Leaving
  <1>4. Remembered => Remembered'
    BY <1>1, <1>2 DEF Remembered
  <1>5. Listed => Listed'
    BY <1>1 DEF Listed, Fits, Setup, Leaving
  <1>6. QED
    BY <1>1, <1>2, <1>3, <1>4, <1>5, FaultFree DEF RInv, Restorable, kernel

LEMMA NothingRestorable ==
    ASSUME RInv, UNCHANGED vars PROVE Restorable'
  <1>1. UNCHANGED <<board, crtcs, fbs, modeset_list, dev, i, pc, faults>>
    BY DEF vars, kernel
  <1>2. OnScreen' = OnScreen /\ Known' = Known /\ Theirs' = Theirs
    BY <1>1 DEF OnScreen, Known, Theirs
  <1>3. Displayed => Displayed'
    BY <1>1, <1>2 DEF Displayed, Picture, Leaving
  <1>4. Remembered => Remembered'
    BY <1>1, <1>2 DEF Remembered
  <1>5. Listed => Listed'
    <2>1. Connector' = Connector /\ Used' = Used
      BY <1>1 DEF Connector, Used
    <2>2. QED
      BY <1>1, <2>1 DEF Listed, Fits, Leaving
  <1>6. QED
    BY <1>1, <1>2, <1>3, <1>4, <1>5, FaultFree DEF RInv, Restorable

LEMMA RInit == Init => RInv
  <1> SUFFICES ASSUME Init PROVE RInv
    OBVIOUS
  <1>1. MInv
    BY MInit
  <1>2. /\ crtcs = board.crtcs /\ fbs = Theirs \ {None} /\ modeset_list = <<>>
        /\ pc = "open" /\ i = 1
    BY DEF Init, Theirs
  <1>3. OnScreen = {} /\ Known = {}
    BY <1>2 DEF OnScreen, Known
  <1>4. Listed
    BY <1>2 DEF Listed, Setup, Leaving
  <1>5. Displayed /\ Remembered
    BY <1>2, <1>3 DEF Displayed, Remembered, Leaving
  <1>6. QED
    BY <1>1, <1>2, <1>4, <1>5 DEF RInv, Restorable

LEMMA RStep == RInv /\ [Next]_vars => RInv'
  <1> SUFFICES ASSUME RInv, [Next]_vars PROVE Restorable'
    BY MStep DEF RInv
  <1>1. CASE modeset_open  BY <1>1, OpenRestorable
  <1>2. CASE modeset_setup_dev  BY <1>2, SetupRestorable
  <1>3. CASE modeset_find_crtc  BY <1>3, FindRestorable
  <1>4. CASE CreateDumb  BY <1>4, CreateDumbRestorable
  <1>5. CASE AddFb  BY <1>5, AddFbRestorable
  <1>6. CASE Map  BY <1>6, MapRestorable
  <1>7. CASE ErrFb  BY <1>7, ErrFbRestorable
  <1>8. CASE ErrDestroy  BY <1>8, ErrDestroyRestorable
  <1>9. CASE Prepared  BY <1>9, PreparedRestorable
  <1>10. CASE SaveCrtc  BY <1>10, SaveRestorable
  <1>11. CASE Show  BY <1>11, ShowRestorable
  <1>12. CASE modeset_draw  BY <1>12, DrawRestorable
  <1>13. CASE Restore  BY <1>13, RestoreRestorable
  <1>14. CASE Unmap  BY <1>14, UnmapRestorable
  <1>15. CASE FreeFb  BY <1>15, FreeFbRestorable
  <1>16. CASE FreeDumb  BY <1>16, FreeDumbRestorable
  <1>17. CASE Exit  BY <1>17, ExitRestorable
  <1>18. CASE Ended \/ UNCHANGED vars  BY <1>18, NothingRestorable DEF Ended
  <1>19. QED
    BY <1>1, <1>2, <1>3, <1>4, <1>5, <1>6, <1>7, <1>8, <1>9, <1>10, <1>11, <1>12, <1>13,
       <1>14, <1>15, <1>16, <1>17, <1>18 DEF Next

\* When main ends after a run in which no request failed, modeset_cleanup has
\* put every CRTC back: each connector shows what it showed before the program
\* started, on any board whose connectors in use come first.
THEOREM ScreensComeBack == Spec => []ScreensRestored
  <1>1. RInv => ScreensRestored
    <2> SUFFICES ASSUME RInv, pc = "exit", Calm
                 PROVE  \A k \in DOMAIN board.connectors :
                           Shown(crtcs, board.connectors[k].id)
                              = Shown(board.crtcs, board.connectors[k].id)
      BY DEF ScreensRestored, Calm
    <2>1. OnScreen = {} /\ Displayed
      BY DEF OnScreen, RInv, MInv, Apart, Restorable, Setup
    <2>2. \A c \in DOMAIN board.crtcs : crtcs[c] = board.crtcs[c]
      BY <2>1 DEF Displayed, Leaving
    <2>3. DOMAIN crtcs = DOMAIN board.crtcs
      BY DEF RInv, MInv, Types
    <2>4. QED
      BY <2>2, <2>3 DEF Shown
  <1>2. QED
    BY <1>1, RInit, RStep, PTL DEF Spec

-----------------------------------------------------------------------------
-----------------------------------------------------------------------------
\* The size of a connected screen of the board.
Sized(n) == \E k \in DOMAIN board.connectors : board.connectors[k].size = n /\ n # 0

\* The buffers have the sizes of screens, and every device that is on a screen
\* has its CRTC saved or is one whose saving failed.
Framed ==
    /\ \A k \in DOMAIN modeset_list : Sized(modeset_list[k].size)
    /\ pc \in Setup \ {"connector"} => Sized(dev.size)
Unharmed ==
    \A k \in Known : modeset_list[k].saved.known \/ modeset_list[k].crtc \in failed.save

Whole == MInv /\ Framed /\ Unharmed /\ CrashExplained

\* Steps that leave the list alone and bring no device to a screen.
LEMMA QuietStep ==
    ASSUME Whole, UNCHANGED <<board, modeset_list>>, failed.save \subseteq failed'.save,
           pc' # "crashed", Known' \subseteq Known,
           pc' \in Setup \ {"connector"} =>
              /\ pc \in Setup \ {"connector"}
              /\ dev'.size = dev.size
    PROVE  Framed' /\ Unharmed' /\ CrashExplained'
  BY DEF Whole, Framed, Sized, Unharmed, CrashExplained

LEMMA SetupWhole ==
    ASSUME Whole, modeset_open \/ modeset_setup_dev \/ modeset_find_crtc
    PROVE  Framed' /\ Unharmed' /\ CrashExplained'
  <1>0. UNCHANGED <<board, modeset_list, failed>>
    BY DEF modeset_open, modeset_setup_dev, modeset_find_crtc
  <1>1. CASE modeset_open
    <2>1. /\ pc = "open" /\ pc' \in {"connector", "exit"} /\ modeset_list = <<>>
      BY <1>1 DEF modeset_open, Whole, MInv, Apart
    <2>2. Known' = {}
      BY <1>0, <2>1 DEF Known, OnScreen, Setup
    <2>3. QED
      BY <1>0, <2>1, <2>2, QuietStep DEF Setup
  <1>2. CASE modeset_setup_dev
    <2>1. pc = "connector" /\ i \in DOMAIN board.connectors
      BY <1>2, BoardFacts DEF modeset_setup_dev, Whole, MInv, Types
    <2>2. pc' \in {"connector", "crtc"}
      BY <1>2 DEF modeset_setup_dev, NextConnector
    <2>3. Known' = {}
      BY <2>2 DEF Known, OnScreen, Setup
    <2>4. CASE pc' = "connector"
      BY <1>0, <2>1, <2>3, <2>4, QuietStep
    <2>5. CASE pc' = "crtc"
      <3>1. dev'.size = Connector.size /\ Connector.size # 0
        BY <1>2, <2>5 DEF modeset_setup_dev, NextConnector, NoDev
      <3>2. Sized(dev'.size)
        BY <2>1, <3>1 DEF Sized, Connector
      <3>3. QED
        BY <1>0, <2>3, <2>5, <3>2 DEF Whole, Framed, Sized, Unharmed, CrashExplained
    <2>6. QED
      BY <2>2, <2>4, <2>5
  <1>3. CASE modeset_find_crtc
    <2>1. pc = "crtc"
      BY <1>3 DEF modeset_find_crtc
    <2>2. \/ NextConnector
          \/ \E found : pc' = "dumb" /\ dev' = [dev EXCEPT !.crtc = found]
      BY <1>3 DEF modeset_find_crtc
    <2>3. pc' = "connector" \/ (pc' = "dumb" /\ dev'.size = dev.size)
      BY <2>2 DEF NextConnector, Whole, MInv, Types, Devs
    <2>4. Known' = {}
      BY <2>3 DEF Known, OnScreen, Setup
    <2>5. QED
      BY <1>0, <2>1, <2>3, <2>4, QuietStep DEF Setup
  <1>4. QED
    BY <1>1, <1>2, <1>3

LEMMA BufferWhole ==
    ASSUME Whole, CreateDumb \/ AddFb \/ Map \/ ErrFb \/ ErrDestroy \/ Prepared
    PROVE  Framed' /\ Unharmed' /\ CrashExplained'
  <1>1. /\ UNCHANGED board /\ pc \in Setup
        /\ pc' \in Setup \cup {"save"}
        /\ pc' = "save" => i' = 1 /\ UNCHANGED modeset_list
    BY DEF CreateDumb, AddFb, Map, ErrFb, ErrDestroy, Prepared, NextConnector, Setup
  <1>2. Known' = {}
    <2>1. i' = 1 /\ UNCHANGED modeset_list => \A k \in DOMAIN modeset_list' : ~(k < i')
      BY DEF Whole, MInv, Types
    <2>2. QED
      BY <1>1, <2>1 DEF Known, OnScreen, Setup
  <1>3. CASE UNCHANGED modeset_list
    <2>1. pc' \in Setup \ {"connector"} => pc \in Setup \ {"connector"} /\ dev'.size = dev.size
      BY <1>3 DEF CreateDumb, AddFb, Map, ErrFb, ErrDestroy, Prepared, NextConnector, Setup,
                  Whole, MInv, Types, Devs
    <2>2. failed.save \subseteq failed'.save
      <3>1. CASE ErrFb
        BY <3>1, DevNumber, Shows, RmFbKeeps DEF ErrFb, Whole
      <3>2. CASE ErrDestroy
        BY <3>2, DevNumber, DestroyKeeps DEF ErrDestroy, Whole
      <3>3. CASE UNCHANGED failed
        BY <3>3
      <3>4. QED
        BY <3>1, <3>2, <3>3 DEF CreateDumb, AddFb, Map, Prepared
    <2>3. QED
      BY <1>1, <1>2, <1>3, <2>1, <2>2, QuietStep DEF Setup
  <1>4. CASE modeset_list' # modeset_list
    <2>1. modeset_list' = <<dev>> \o modeset_list /\ pc = "map" /\ pc' = "connector"
      BY <1>4 DEF CreateDumb, AddFb, Map, ErrFb, ErrDestroy, Prepared, NextConnector
    <2>2. \A k \in DOMAIN modeset_list' :
             modeset_list'[k] = dev \/ \E l \in DOMAIN modeset_list : modeset_list'[k] = modeset_list[l]
      BY <1>1, <2>1, ListGrows DEF Whole
    <2>3. Sized(dev.size)
      BY <2>1 DEF Whole, Framed, Setup
    <2>4. Framed'
      <3>1. \A k \in DOMAIN modeset_list' : Sized(modeset_list'[k].size)
        BY <2>2, <2>3 DEF Whole, Framed
      <3>2. QED
        BY <1>1, <2>1, <3>1 DEF Framed, Sized
    <2>5. QED
      BY <1>2, <2>1, <2>4 DEF Unharmed, CrashExplained
  <1>5. QED
    BY <1>3, <1>4

LEMMA SaveWhole ==
    ASSUME Whole, SaveCrtc
    PROVE  Framed' /\ Unharmed' /\ CrashExplained'
  <1>1. DOMAIN modeset_list \subseteq Nat /\ i \in Nat /\ modeset_list \in Seq(Devs)
    BY DEF Whole, MInv, Types
  <1>2. /\ pc = "save" /\ pc' = "show" /\ i \in DOMAIN modeset_list
        /\ UNCHANGED <<board, kernel, dev, i>>
    BY <1>1 DEF SaveCrtc, Whole, MInv, Types
  <1> DEFINE v == [known |-> TRUE, fb |-> crtcs[Device.crtc].fb]
             t == modeset_list'
  <1>3. v \in Saves /\ v.known
    <2>1. crtcs[Device.crtc].fb \in Nat
      BY <1>2 DEF Whole, MInv, Types, Apart, Device
    <2>2. QED
      BY <2>1 DEF Saves
  <1>4. \/ t = [modeset_list EXCEPT ![i].saved = v] /\ UNCHANGED failed
        \/ t = modeset_list /\ failed' = [failed EXCEPT !.save = @ \cup {Device.crtc}]
    BY DEF SaveCrtc
  <1> HIDE DEF v, t
  <1>5. t = [modeset_list EXCEPT ![i].saved = v] =>
           /\ DOMAIN t = DOMAIN modeset_list
           /\ \A k \in DOMAIN modeset_list :
                 /\ t[k].size = modeset_list[k].size /\ t[k].crtc = modeset_list[k].crtc
                 /\ t[k].saved = IF k = i THEN v ELSE modeset_list[k].saved
    BY <1>1, <1>2, <1>3, Saving
  <1>6. failed.save \subseteq failed'.save /\ (t = modeset_list => Device.crtc \in failed'.save \/ UNCHANGED failed)
    <2>1. failed \in Refused /\ Device.crtc \in Nat
      BY <1>2, BoardFacts DEF Whole, MInv, Types, Apart, Device
    <2>2. failed' = [failed EXCEPT !.save = @ \cup {Device.crtc}] => failed'.save = failed.save \cup {Device.crtc}
      BY <2>1, Refusing
    <2>3. QED
      BY <1>4, <2>2
  <1>7. Framed'
    <2>1. \A k \in DOMAIN t : Sized(t[k].size)
      BY <1>4, <1>5 DEF Whole, Framed
    <2>2. QED
      BY <1>2, <2>1 DEF Framed, Sized, t, Setup
  <1>8. Unharmed'
    <2>1. Known' = Known \cup {i} /\ Known \subseteq DOMAIN modeset_list
      BY <1>2, <1>4, <1>5 DEF Known, OnScreen, Setup, t
    <2>2. ASSUME NEW k \in Known \cup {i} PROVE t[k].saved.known \/ t[k].crtc \in failed'.save
      <3>1. CASE t = [modeset_list EXCEPT ![i].saved = v]
        <4>1. CASE k = i
          BY <1>2, <1>3, <1>5, <3>1, <4>1
        <4>2. CASE k # i
          BY <1>5, <1>6, <2>1, <2>2, <3>1, <4>2 DEF Whole, Unharmed
        <4>3. QED
          BY <4>1, <4>2
      <3>2. CASE t = modeset_list /\ failed' = [failed EXCEPT !.save = @ \cup {Device.crtc}]
        <4>1. Device.crtc \in failed'.save
          <5>1. failed \in Refused /\ Device.crtc \in Nat
            BY <1>2, BoardFacts DEF Whole, MInv, Types, Apart, Device
          <5>2. QED
            BY <3>2, <5>1, Refusing
        <4>2. QED
          BY <1>6, <2>2, <3>2, <4>1 DEF Whole, Unharmed, Device
      <3>3. QED
        BY <1>4, <3>1, <3>2
    <2>3. QED
      BY <2>1, <2>2 DEF Unharmed, t
  <1>9. QED
    BY <1>2, <1>7, <1>8 DEF CrashExplained

LEMMA LoopWhole ==
    ASSUME Whole, Show \/ modeset_draw
    PROVE  Framed' /\ Unharmed' /\ CrashExplained'
  <1>1. DOMAIN modeset_list \subseteq Nat /\ i \in Nat /\ modeset_list \in Seq(Devs)
    BY DEF Whole, MInv, Types
  <1>2. CASE Show
    <2>1. /\ pc = "show" /\ pc' = "save" /\ i' = i + 1 /\ UNCHANGED <<board, modeset_list, failed>>
      BY <1>2 DEF Show
    <2>2. Known' \subseteq Known
      <3>1. \A k \in DOMAIN modeset_list : k < i + 1 => k < i \/ k = i
        BY <1>1
      <3>2. QED
        BY <2>1, <3>1 DEF Known, OnScreen, Setup
    <2>3. QED
      BY <2>1, <2>2, QuietStep DEF Setup
  <1>3. CASE modeset_draw
    <2>1. /\ pc = "save" /\ i > Len(modeset_list) /\ UNCHANGED <<board, modeset_list, failed>>
          /\ pc' = IF \E k \in DOMAIN modeset_list : modeset_list[k].size < FrameSize
                   THEN "crashed" ELSE "restore"
      BY <1>3 DEF modeset_draw
    <2>2. Known' \subseteq Known
      <3>1. \A k \in DOMAIN modeset_list : k < i
        BY <1>1, <2>1
      <3>2. QED
        BY <2>1, <3>1 DEF Known, OnScreen, Setup
    <2>3. CASE pc' = "restore"
      BY <2>1, <2>2, <2>3, QuietStep DEF Setup
    <2>4. CASE \E k \in DOMAIN modeset_list : modeset_list[k].size < FrameSize
      <3>1. PICK k \in DOMAIN modeset_list : modeset_list[k].size < FrameSize
        BY <2>4
      <3>2. PICK j \in DOMAIN board.connectors :
               board.connectors[j].size = modeset_list[k].size /\ modeset_list[k].size # 0
        BY DEF Whole, Framed, Sized
      <3>3. modeset_list[k].size \in Nat /\ FrameSize \in Nat
        <4>1. modeset_list[k] \in Devs
          BY <1>1
        <4>2. QED
          BY <4>1, BoardFacts DEF Whole, MInv, Devs
      <3>4. board.connectors[j].size \in 1 .. FrameSize - 1
        BY <3>1, <3>2, <3>3
      <3>5. Framed' /\ Unharmed'
        BY <2>1, <2>2, <2>4 DEF Whole, Framed, Sized, Unharmed, Setup
      <3>6. QED
        BY <2>1, <3>4, <3>5 DEF CrashExplained
    <2>5. QED
      BY <2>1, <2>3, <2>4
  <1>4. QED
    BY <1>2, <1>3

LEMMA CleanupWhole ==
    ASSUME Whole, Restore \/ Unmap \/ FreeFb \/ FreeDumb \/ Exit \/ Ended \/ UNCHANGED vars
    PROVE  Framed' /\ Unharmed' /\ CrashExplained'
  <1>1. CASE Restore
    <2>1. /\ pc = "restore" /\ modeset_list # <<>> /\ modeset_list \in Seq(Devs)
          /\ UNCHANGED <<board, failed>>
      BY <1>1 DEF Restore, Whole, MInv, Types
    <2>2. Known = DOMAIN modeset_list
      BY <2>1 DEF Known, OnScreen, Setup
    <2>3. CASE modeset_list' = Tail(modeset_list) /\ pc' = "unmap"
      <3>1. \A k \in DOMAIN modeset_list' : k + 1 \in DOMAIN modeset_list /\ modeset_list'[k] = modeset_list[k + 1]
        BY <2>1, <2>3, Leaves
      <3>2. Known' = DOMAIN modeset_list'
        BY <2>3 DEF Known, OnScreen, Setup
      <3>3. QED
        BY <2>1, <2>2, <2>3, <3>1, <3>2 DEF Whole, Framed, Sized, Unharmed, Setup, CrashExplained
    <2>4. CASE ~Head(modeset_list).saved.known
      <3>1. pc' = "crashed" /\ UNCHANGED modeset_list
        BY <1>1, <2>4 DEF Restore
      <3>2. Head(modeset_list) = modeset_list[1] /\ 1 \in DOMAIN modeset_list
        BY <2>1, Leaves
      <3>3. Head(modeset_list).crtc \in failed.save
        BY <2>2, <2>4, <3>2 DEF Whole, Unharmed
      <3>4. Known' = Known
        BY <2>1, <3>1 DEF Known, OnScreen, Setup
      <3>5. Framed' /\ Unharmed'
        BY <2>1, <3>1, <3>4 DEF Whole, Framed, Sized, Unharmed, Setup
      <3>6. QED
        BY <2>1, <3>1, <3>3, <3>5 DEF CrashExplained
    <2>5. QED
      BY <1>1, <2>3, <2>4 DEF Restore
  <1>2. CASE Unmap \/ FreeFb \/ FreeDumb \/ Exit
    <2>1. /\ pc \in Freeing \cup {"restore"} /\ pc' \in Freeing \cup {"restore", "exit"}
          /\ UNCHANGED <<board, modeset_list>>
      BY <1>2 DEF Unmap, FreeFb, FreeDumb, Exit, Freeing
    <2>2. Known' = Known
      BY <2>1 DEF Known, OnScreen, Setup, Freeing
    <2>3. failed.save \subseteq failed'.save
      <3>1. CASE Unmap
        BY <3>1, DevNumber, UnmapKeeps DEF Unmap, Whole
      <3>2. CASE FreeFb
        BY <3>2, DevNumber, Shows, RmFbKeeps DEF FreeFb, Whole
      <3>3. CASE FreeDumb
        BY <3>3, DevNumber, DestroyKeeps DEF FreeDumb, Whole
      <3>4. CASE Exit
        BY <3>4 DEF Exit
      <3>5. QED
        BY <1>2, <3>1, <3>2, <3>3, <3>4
    <2>4. QED
      BY <2>1, <2>2, <2>3, QuietStep DEF Setup, Freeing
  <1>3. CASE Ended \/ UNCHANGED vars
    <2>1. UNCHANGED <<board, modeset_list, dev, i, pc, failed>>
      BY <1>3 DEF Ended, vars
    <2>2. Known' = Known
      BY <2>1 DEF Known, OnScreen
    <2>3. QED
      BY <2>1, <2>2 DEF Whole, Framed, Sized, Unharmed, CrashExplained
  <1>4. QED
    BY <1>1, <1>2, <1>3

LEMMA WholeInit == Init => Whole
  <1>1. Init => Framed
    BY DEF Init, Framed, Setup
  <1>2. Init => Unharmed
    BY DEF Init, Unharmed, Known, OnScreen
  <1>3. Init => CrashExplained
    BY DEF Init, CrashExplained
  <1>4. QED
    BY <1>1, <1>2, <1>3, MInit DEF Whole

\* A frame is copied past a buffer (modeset_draw) only on a board with a screen
\* smaller than a frame, and modeset_cleanup restores a CRTC it knows nothing of
\* only when the saving of that very CRTC failed: whichever other requests
\* fail, and how many, the program does not crash.
THEOREM CrashHasCause == Spec => []CrashExplained
  <1>1. Whole /\ [Next]_vars => Whole'
    BY MStep, SetupWhole, BufferWhole, SaveWhole, LoopWhole, CleanupWhole DEF Whole, Next
  <1>2. Whole => CrashExplained
    BY DEF Whole
  <1>3. QED
    BY <1>1, <1>2, WholeInit, PTL DEF Spec
=============================================================================
