------------------------------- MODULE Modeset -------------------------------
(***************************************************************************)
(* The display program test-drm-full.cc: it finds a CRTC and makes a       *)
(* framebuffer for every connected screen (modeset_prepare), shows the     *)
(* framebuffers, draws, and puts everything back (modeset_cleanup).  One   *)
(* step per request to the kernel, any of which may fail.  The kernel's    *)
(* side is the external part: which framebuffers and mappings exist, and   *)
(* which framebuffer and connector each CRTC has.                          *)
(***************************************************************************)
EXTENDS Integers, Sequences, FiniteSets

CONSTANTS Boards,     \* the boards and screens the program may start on
          FrameSize,  \* what modeset_draw copies: 1920 * 1080 * 4, scaled down
          MaxFaults   \* bound: requests that fail

None == 0

\* What the kernel tells of a board is consistent: an object's id names one; the
\* CRTC of a connector in use drives that connector alone and the others are
\* off; a connector without a screen has no modes.  The framebuffers of a board
\* have numbers of at most 100.
BoardOK(b) ==
    /\ b.connectors \in Seq([id : Nat \ {None}, connected : BOOLEAN, size : Nat,
                              encoder : DOMAIN b.encoders \cup {None},
                              encoders : Seq(DOMAIN b.encoders)])
    /\ IsFiniteSet(DOMAIN b.encoders)
    /\ DOMAIN b.crtcs \subseteq Nat \ {None}
    /\ b.crtcs \in [DOMAIN b.crtcs -> [fb : 0 .. 100, conn : Nat]]
    /\ \A e \in DOMAIN b.encoders : b.encoders[e].crtc \in DOMAIN b.crtcs \cup {None}
    /\ \A k, l \in DOMAIN b.connectors :
          b.connectors[k].id = b.connectors[l].id => k = l
    /\ \A k \in DOMAIN b.connectors :
          /\ b.connectors[k].size # 0 => b.connectors[k].connected
          /\ b.connectors[k].encoder # None =>
                LET c == b.encoders[b.connectors[k].encoder].crtc
                IN  c # None /\ b.crtcs[c].conn = b.connectors[k].id
    /\ \A c \in DOMAIN b.crtcs :
          \/ b.crtcs[c] = [fb |-> None, conn |-> None]
          \/ \E k \in DOMAIN b.connectors :
                /\ b.connectors[k].id = b.crtcs[c].conn /\ b.connectors[k].encoder # None
                /\ b.encoders[b.connectors[k].encoder].crtc = c /\ b.crtcs[c].fb # None

ASSUME ModesetAssumption == /\ \A b \in Boards : BoardOK(b)
                            /\ FrameSize \in Nat /\ MaxFaults \in Nat

VARIABLES board,    \* the connectors, encoders and CRTCs, as found at the start
          crtcs,    \* crtcs[c]: the framebuffer and the connector CRTC c has now
          fbs, dumbs, maps,  \* the framebuffers, dumb buffers and mappings that exist
          modeset_list,      \* the devices set up, the newest first
          dev,      \* the device being set up
          i,        \* the connector, or the device, a loop has reached
          pc, faults,
          failed    \* what the requests whose answer nobody looks at failed for

kernel == <<crtcs, fbs, dumbs, maps>>
vars == <<board, kernel, modeset_list, dev, i, pc, faults, failed>>

NoDev == [conn |-> None, crtc |-> None, buffer |-> None, size |-> 0, saved |-> [known |-> FALSE]]

\* Every request either succeeds or, within the bound, fails.
Succeeds == UNCHANGED faults
Fails == faults > 0 /\ faults' = faults - 1

Init == /\ board \in Boards
        /\ crtcs = board.crtcs
        /\ fbs = {board.crtcs[c].fb : c \in DOMAIN board.crtcs} \ {None}
        /\ dumbs = {} /\ maps = {}
        /\ modeset_list = <<>> /\ dev = NoDev /\ i = 1
        /\ pc = "open" /\ faults = MaxFaults
        /\ failed = [save |-> {}, map |-> {}, fb |-> {}, dumb |-> {}]

\* modeset_open and drmModeGetResources.  Without dumb buffers: no display.
modeset_open ==
    /\ pc = "open"
    /\ \/ Succeeds /\ pc' = "connector"
       \/ Fails /\ pc' = "exit"
    /\ UNCHANGED <<board, kernel, modeset_list, dev, i, failed>>

Connector == board.connectors[i]
NextConnector == pc' = "connector" /\ i' = i + 1 /\ dev' = NoDev

\* The checks that open modeset_setup_dev.
modeset_setup_dev ==
    /\ pc = "connector" /\ i <= Len(board.connectors)
    /\ \/ /\ Succeeds
          /\ IF Connector.connected /\ Connector.size # 0
             THEN /\ dev' = [NoDev EXCEPT !.conn = Connector.id, !.size = Connector.size]
                  /\ pc' = "crtc" /\ UNCHANGED i
             ELSE NextConnector
       \/ Fails /\ NextConnector
    /\ UNCHANGED <<board, kernel, modeset_list, failed>>

Used == {modeset_list[k].crtc : k \in DOMAIN modeset_list}

\* Mutant of Candidates: CRTCs of other devices are taken too.
CandidatesUsed(bad) ==
    {p \in (DOMAIN Connector.encoders) \X (DOMAIN board.crtcs) :
        /\ p[1] \notin bad
        /\ p[2] \in board.encoders[Connector.encoders[p[1]]].possible}

\* The encoders of this connector, each by its place, with the CRTCs they work
\* with that no device has; the places in bad cannot be retrieved.
Candidates(bad) ==
    {p \in (DOMAIN Connector.encoders) \X (DOMAIN board.crtcs) :
        /\ p[1] \notin bad
        /\ p[2] \in board.encoders[Connector.encoders[p[1]]].possible
        /\ p[2] \notin Used}

First(pairs) == CHOOSE p \in pairs :
    \A q \in pairs : p[1] < q[1] \/ (p[1] = q[1] /\ p[2] <= q[2])

\* The CRTC the connector has already, if it is free, or None.
Current ==
    IF Connector.encoder = None THEN None
    ELSE LET c == board.encoders[Connector.encoder].crtc
         IN  IF c \in Used THEN None ELSE c

\* Mutant of modeset_find_crtc: finding nothing goes unnoticed.
modeset_find_crtcUnchecked ==
    /\ pc = "crtc"
    /\ dev' = [dev EXCEPT !.crtc = IF Candidates({}) = {} THEN None ELSE First(Candidates({}))[2]]
    /\ pc' = "dumb"
    /\ UNCHANGED <<board, kernel, modeset_list, i, faults, failed>>

\* The connector's current encoder may not be retrieved (lost), then any of its
\* list, be it the same one (bad).
modeset_find_crtc ==
    /\ pc = "crtc"
    /\ \E lost \in BOOLEAN, bad \in SUBSET DOMAIN Connector.encoders :
         LET first == IF lost THEN None ELSE Current
             cost == Cardinality(bad) + IF lost THEN 1 ELSE 0
             found == IF first # None THEN first
                      ELSE IF Candidates(bad) # {} THEN First(Candidates(bad))[2] ELSE None
         IN  /\ lost => Connector.encoder # None
             /\ first # None => bad = {}
             /\ cost <= faults /\ faults' = faults - cost
             /\ IF found = None THEN NextConnector
                ELSE pc' = "dumb" /\ dev' = [dev EXCEPT !.crtc = found] /\ UNCHANGED i
    /\ UNCHANGED <<board, kernel, modeset_list, failed>>

-----------------------------------------------------------------------------
\* modeset_create_fb.  A device's dumb buffer, framebuffer and mapping are
\* known by one number, its own.
Fresh == 100 + i

CreateDumb ==
    /\ pc = "dumb"
    /\ \/ /\ Succeeds
          /\ dumbs' = dumbs \cup {Fresh} /\ dev' = [dev EXCEPT !.buffer = Fresh]
          /\ pc' = "addfb" /\ UNCHANGED i
       \/ Fails /\ NextConnector /\ UNCHANGED dumbs
    /\ UNCHANGED <<board, crtcs, fbs, maps, modeset_list, failed>>

AddFb ==
    /\ pc = "addfb"
    /\ \/ Succeeds /\ fbs' = fbs \cup {dev.buffer} /\ pc' = "map"
       \/ Fails /\ pc' = "err_destroy" /\ UNCHANGED fbs
    /\ UNCHANGED <<board, crtcs, dumbs, maps, modeset_list, dev, i, failed>>

\* Mutant of Map: the framebuffer stays when the mapping fails.
MapToDestroy ==
    /\ pc = "map"
    /\ \/ /\ Succeeds
          /\ maps' = maps \cup {dev.buffer}
          /\ modeset_list' = <<dev>> \o modeset_list
          /\ NextConnector
       \/ Fails /\ pc' = "err_destroy" /\ UNCHANGED <<maps, modeset_list, dev, i>>
    /\ UNCHANGED <<board, crtcs, fbs, dumbs, failed>>

\* DRM_IOCTL_MODE_MAP_DUMB and mmap; then the device joins the list.
Map ==
    /\ pc = "map"
    /\ \/ /\ Succeeds
          /\ maps' = maps \cup {dev.buffer}
          /\ modeset_list' = <<dev>> \o modeset_list
          /\ NextConnector
       \/ Fails /\ pc' = "err_fb" /\ UNCHANGED <<maps, modeset_list, dev, i>>
    /\ UNCHANGED <<board, crtcs, fbs, dumbs, failed>>

\* munmap, drmModeRmFB and DESTROY_DUMB: nobody looks whether they succeed.  A
\* framebuffer that is removed leaves the CRTC that shows it off.
Off == [fb |-> None, conn |-> None]

munmap(n) ==
    \/ Succeeds /\ maps' = maps \ {n} /\ UNCHANGED failed
    \/ Fails /\ failed' = [failed EXCEPT !.map = @ \cup {n}] /\ UNCHANGED maps

drmModeRmFB(n) ==
    \/ /\ Succeeds /\ UNCHANGED failed
       /\ fbs' = fbs \ {n}
       /\ crtcs' = [c \in DOMAIN crtcs |-> IF crtcs[c].fb = n THEN Off ELSE crtcs[c]]
    \/ Fails /\ failed' = [failed EXCEPT !.fb = @ \cup {n}] /\ UNCHANGED <<fbs, crtcs>>

DestroyDumb(n) ==
    \/ Succeeds /\ dumbs' = dumbs \ {n} /\ UNCHANGED failed
    \/ Fails /\ failed' = [failed EXCEPT !.dumb = @ \cup {n}] /\ UNCHANGED dumbs

ErrFb ==
    /\ pc = "err_fb"
    /\ drmModeRmFB(dev.buffer)
    /\ pc' = "err_destroy"
    /\ UNCHANGED <<board, dumbs, maps, modeset_list, dev, i>>

ErrDestroy ==
    /\ pc = "err_destroy"
    /\ DestroyDumb(dev.buffer)
    /\ NextConnector
    /\ UNCHANGED <<board, crtcs, fbs, maps, modeset_list>>

Prepared ==
    /\ pc = "connector" /\ i > Len(board.connectors)
    /\ pc' = "save" /\ i' = 1
    /\ UNCHANGED <<board, kernel, modeset_list, dev, faults, failed>>

-----------------------------------------------------------------------------
\* drmModeSetCrtc: the CRTC shows fb on that connector alone, and a CRTC that
\* loses its connector goes off.  No framebuffer 0 exists.
SetCrtc(c, fb, conn) ==
    IF fb \in fbs
    THEN crtcs' = [d \in DOMAIN crtcs |-> IF d = c THEN [fb |-> fb, conn |-> conn]
                                          ELSE IF crtcs[d].conn = conn THEN Off ELSE crtcs[d]]
    ELSE UNCHANGED crtcs

Device == modeset_list[i]

\* Mutant of SaveCrtc: nothing is saved.
SaveCrtcSkipped ==
    /\ pc = "save" /\ i <= Len(modeset_list)
    /\ pc' = "show"
    /\ UNCHANGED <<board, kernel, modeset_list, dev, i, faults, failed>>

\* The loop of main: the CRTC's state is saved, then the CRTC is set.  A
\* setting that fails is reported and passed over.
SaveCrtc ==
    /\ pc = "save" /\ i <= Len(modeset_list)
    /\ \/ /\ Succeeds
          /\ modeset_list' = [modeset_list EXCEPT ![i].saved =
                                 [known |-> TRUE, fb |-> crtcs[Device.crtc].fb]]
          /\ UNCHANGED failed
       \/ /\ Fails
          /\ failed' = [failed EXCEPT !.save = @ \cup {Device.crtc}]
          /\ UNCHANGED modeset_list
    /\ pc' = "show"
    /\ UNCHANGED <<board, kernel, dev, i>>

Show ==
    /\ pc = "show"
    /\ \/ Succeeds /\ SetCrtc(Device.crtc, Device.buffer, Device.conn)
       \/ Fails /\ UNCHANGED crtcs
    /\ pc' = "save" /\ i' = i + 1
    /\ UNCHANGED <<board, fbs, dumbs, maps, modeset_list, dev, failed>>

\* modeset_draw copies a whole frame into every mapping, whatever its size.
modeset_draw ==
    /\ pc = "save" /\ i > Len(modeset_list)
    /\ pc' = IF \E k \in DOMAIN modeset_list : modeset_list[k].size < FrameSize
             THEN "crashed" ELSE "restore"
    /\ i' = 1
    /\ UNCHANGED <<board, kernel, modeset_list, dev, faults, failed>>

-----------------------------------------------------------------------------
\* Mutant of Restore: the CRTC is left as it is.
RestoreForgotten ==
    /\ pc = "restore" /\ modeset_list # <<>>
    /\ dev' = Head(modeset_list) /\ modeset_list' = Tail(modeset_list)
    /\ pc' = "unmap"
    /\ UNCHANGED <<board, kernel, i, faults, failed>>

\* modeset_cleanup takes the devices one by one; saved_crtc is used unchecked.
Restore ==
    /\ pc = "restore" /\ modeset_list # <<>>
    /\ IF Head(modeset_list).saved.known
       THEN /\ \/ /\ Succeeds
                  /\ SetCrtc(Head(modeset_list).crtc, Head(modeset_list).saved.fb,
                             Head(modeset_list).conn)
               \/ Fails /\ UNCHANGED crtcs
            /\ dev' = Head(modeset_list) /\ modeset_list' = Tail(modeset_list)
            /\ pc' = "unmap"
       ELSE pc' = "crashed" /\ UNCHANGED <<crtcs, dev, modeset_list, faults>>
    /\ UNCHANGED <<board, fbs, dumbs, maps, i, failed>>

Unmap ==
    /\ pc = "unmap"
    /\ munmap(dev.buffer)
    /\ pc' = "rmfb"
    /\ UNCHANGED <<board, crtcs, fbs, dumbs, modeset_list, dev, i>>

FreeFb ==
    /\ pc = "rmfb"
    /\ drmModeRmFB(dev.buffer)
    /\ pc' = "destroy"
    /\ UNCHANGED <<board, dumbs, maps, modeset_list, dev, i>>

FreeDumb ==
    /\ pc = "destroy"
    /\ DestroyDumb(dev.buffer)
    /\ pc' = "restore" /\ dev' = NoDev
    /\ UNCHANGED <<board, crtcs, fbs, maps, modeset_list, i>>

\* modeset_cleanup is done; what close and the end of the process still free
\* does not count.
Exit ==
    /\ pc = "restore" /\ modeset_list = <<>>
    /\ pc' = "exit"
    /\ UNCHANGED <<board, kernel, modeset_list, dev, i, faults, failed>>

Ended == pc \in {"exit", "crashed"} /\ UNCHANGED vars

Next == \/ modeset_open \/ modeset_setup_dev \/ modeset_find_crtc
        \/ CreateDumb \/ AddFb \/ Map \/ ErrFb \/ ErrDestroy \/ Prepared
        \/ SaveCrtc \/ Show \/ modeset_draw
        \/ Restore \/ Unmap \/ FreeFb \/ FreeDumb \/ Exit \/ Ended

Spec == Init /\ [][Next]_vars

-----------------------------------------------------------------------------
Owned == {modeset_list[k].buffer : k \in DOMAIN modeset_list}

\* The type invariant.
ModesetTypeOK ==
    /\ \A c \in DOMAIN crtcs : crtcs[c].fb \in fbs \cup {None}
    /\ \A k \in DOMAIN modeset_list : modeset_list[k].crtc \in DOMAIN crtcs
    /\ faults \in 0 .. MaxFaults

\* No two devices have the same CRTC: one connector per CRTC.
OneDevicePerCrtc ==
    \A k, l \in DOMAIN modeset_list :
        k # l => modeset_list[k].crtc # modeset_list[l].crtc

\* What exists at any moment is what the devices own, what is being set up or
\* freed, and what the kernel refused to release; when modeset_cleanup has
\* ended, only the last is left of the program's own.
NothingLeaks ==
    LET mine == fbs \ {board.crtcs[c].fb : c \in DOMAIN board.crtcs}
        held == IF pc = "exit" THEN {} ELSE Owned \cup {dev.buffer}
    IN  /\ mine \subseteq held \cup failed.fb
        /\ dumbs \subseteq held \cup failed.dumb
        /\ maps \subseteq held \cup failed.map
        /\ Owned \subseteq fbs \cap dumbs \cap maps

\* What each connector shows.
Shown(state, conn) == {state[c].fb : c \in {d \in DOMAIN state : state[d].conn = conn}}

\* The connectors in use when the program starts come first, and each of them
\* drives a screen with a mode.
UsedFirst ==
    LET used == {k \in DOMAIN board.connectors : board.connectors[k].encoder # None}
    IN  \A k \in used : /\ board.connectors[k].size # 0
                        /\ \A j \in 1 .. k : j \in used

\* When the program exits, every screen shows what it showed before, as long as
\* no request to the kernel failed and the connectors in use come first.
ScreensRestored ==
    pc = "exit" /\ faults = MaxFaults /\ UsedFirst => \A k \in DOMAIN board.connectors :
        Shown(crtcs, board.connectors[k].id) = Shown(board.crtcs, board.connectors[k].id)

\* The program touches memory that is not there only where it draws on a screen
\* smaller than a frame, or where it comes to a device whose own CRTC could not
\* be saved; no other request that fails leads there.
CrashExplained ==
    pc = "crashed" =>
        \/ \E k \in DOMAIN board.connectors : board.connectors[k].size \in 1 .. FrameSize - 1
        \/ modeset_list # <<>> /\ Head(modeset_list).crtc \in failed.save
=============================================================================
